---- MODULE Spec2Model ----
(***************************************************************************)
(* Model of impacker: the module model (SourceCode / SourceCodeReader),    *)
(* the import group (ImportGroup), and the packing engine (Impacker):      *)
(* requirement propagation followed by bundle assembly.                    *)
(*                                                                         *)
(* Syntax trees are modelled by what the engine inspects of them:          *)
(*   - a statement is an Import, an ImportFrom, a definition (FunctionDef /*)
(*     ClassDef) or any other statement;                                   *)
(*   - the body of a definition or of another statement is the sequence of *)
(*     name events met by ast.NodeVisitor in visiting order: a read         *)
(*     (ast.Name in Load context, or the root of an attribute chain), a    *)
(*     write (ast.Name in Store context), or a nested scope (function,     *)
(*     class or lambda) with its parameters and its own events.            *)
(***************************************************************************)
EXTENDS Integers, Sequences, FiniteSets, TLC

----------------------------------------------------------------------------
(* Syntax trees *)

NoName == ""
None == "None"
MainCodeName == "main code"

R(n) == <<"R", n>>
W(n) == <<"W", n>>
Scope(kind, name, params, ev) == <<"S", kind, name, params, ev>>

Alias(name, asname) == [name |-> name, asname |-> asname]

AstImport(names) ==
    [k |-> "Import", name |-> NoName, module |-> NoName, names |-> names,
     level |-> 0, params |-> {}, ev |-> <<>>, lineno |-> 0, col_offset |-> 0]

\* ast.ImportFrom(module, names, level)
AstImportFrom(module, names, level) ==
    [k |-> "ImportFrom", name |-> NoName, module |-> module, names |-> names,
     level |-> level, params |-> {}, ev |-> <<>>, lineno |-> 0, col_offset |-> 0]

AstDef(name, params, ev, lineno, col_offset) ==
    [k |-> "FunctionDef", name |-> name, module |-> NoName, names |-> <<>>,
     level |-> 0, params |-> params, ev |-> ev, lineno |-> lineno, col_offset |-> col_offset]

AstStmt(ev) ==
    [k |-> "Stmt", name |-> NoName, module |-> NoName, names |-> <<>>,
     level |-> 0, params |-> {}, ev |-> ev, lineno |-> 0, col_offset |-> 0]

\* ast.Expr(ast.Constant(value)): an expression statement that is a constant
\* alone; `name` holds the kind of constant ("str", "int" or "ellipsis")
AstExpr(kind) ==
    [k |-> "Expr", name |-> kind, module |-> NoName, names |-> <<>>,
     level |-> 0, params |-> {}, ev |-> <<>>, lineno |-> 0, col_offset |-> 0]

\* The same statement in the body of a function or class, among its events
C(kind) == <<"C", kind>>

\* ast.Assign([ast.Name(target, Store)], ast.Name(value, Load)); the visitor
\* meets the target before the value.
AstAssign(target, value) == AstStmt(<<W(target), R(value)>>)

----------------------------------------------------------------------------
(* import_group.py *)

ImportModule(module, alias) ==
    [t |-> "ImportModule", module |-> module, name |-> NoName, alias |-> alias]

ImportStarFromModule(module) ==
    [t |-> "ImportStarFromModule", module |-> module, name |-> NoName, alias |-> NoName]

ImportFromModule(module, name, alias) ==
    [t |-> "ImportFromModule", module |-> module, name |-> name, alias |-> alias]

\* Module names are strings; the ones with a leading dot (a relative import of
\* level 1) are listed with the name that follows the dot.
RelativeNames == [m \in {".a", ".b"} |-> IF m = ".a" THEN "a" ELSE "b"]

\* import_resolve.split_module_name: (level, module)
split_module_name(module) ==
    IF module \in DOMAIN RelativeNames THEN <<1, RelativeNames[module]>>
    ELSE <<0, module>>

\* (level * ".") + (module or "") of ImportGroup.add
JoinModuleName(level, module) ==
    IF level = 0 THEN module
    ELSE CHOOSE m \in DOMAIN RelativeNames : RelativeNames[m] = module

AsnameOrName(a) == IF a.asname # NoName THEN a.asname ELSE a.name

\* ImportGroup.add for an ast.Import / ast.ImportFrom node: the entries it
\* appends to ordered_imports.
RECURSIVE EntriesOfNames(_, _)
EntriesOfNames(node, names) ==
    IF names = <<>> THEN <<>>
    ELSE LET a == Head(names)
             e == IF node.k = "Import" THEN ImportModule(a.name, AsnameOrName(a))
                  ELSE IF a.name = "*"
                  THEN ImportStarFromModule(JoinModuleName(node.level, node.module))
                  ELSE ImportFromModule(JoinModuleName(node.level, node.module),
                                        a.name, AsnameOrName(a))
         IN <<e>> \o EntriesOfNames(node, Tail(names))

ImportGroup_add(ordered_imports, node) ==
    ordered_imports \o EntriesOfNames(node, node.names)

----------------------------------------------------------------------------
(* source_code.py: SourceCodeReader *)

ModuleKey == ""

\* dict.get(key) with an empty set for a missing key
GetSet(d, key) == IF key \in DOMAIN d THEN d[key] ELSE {}

\* d[key] = val for a dict modelled as a function
Put(d, key, val) == [x \in (DOMAIN d) \cup {key} |-> IF x = key THEN val ELSE d[x]]

EmptyDict == [x \in {} |-> {}]

\* The reader's state: the SourceCode fields it fills and its own fields.
NewReader ==
    [defined_stack |-> << {} >>, curr_top_def_name |-> ModuleKey,
     global_defines |-> EmptyDict, ordered_imports |-> <<>>,
     unresolved_globals |-> {}, dependency |-> EmptyDict]

SetTop(stack, names) == [stack EXCEPT ![Len(stack)] = @ \cup names]

\* SourceCodeReader.is_defined restricted to the scopes above module scope
DefinedInInnerScope(rd, name) ==
    \E i \in 2..Len(rd.defined_stack) : name \in rd.defined_stack[i]

\* A read recorded as a dependency only when the name is unresolved
add_name_read_UnresolvedOnly(rd, name) ==
    IF name = rd.curr_top_def_name THEN rd
    ELSE IF DefinedInInnerScope(rd, name) \/ name \in rd.defined_stack[1] THEN rd
    ELSE [rd EXCEPT !.dependency =
                        Put(@, rd.curr_top_def_name,
                            GetSet(@, rd.curr_top_def_name) \cup {name}),
                    !.unresolved_globals = @ \cup {name}]

add_name_read(rd, name) ==
    IF name = rd.curr_top_def_name THEN rd
    ELSE IF DefinedInInnerScope(rd, name) THEN rd
    ELSE LET withDep == [rd EXCEPT !.dependency =
                            Put(@, rd.curr_top_def_name,
                                GetSet(@, rd.curr_top_def_name) \cup {name})]
         IN IF name \in rd.defined_stack[1] THEN withDep
            ELSE [withDep EXCEPT !.unresolved_globals = @ \cup {name}]

add_define(rd, name, node) ==
    LET rd1 == [rd EXCEPT !.defined_stack = SetTop(@, {name})]
    IN IF Len(rd.defined_stack) = 1
       THEN [rd1 EXCEPT !.global_defines = Put(@, name, node)]
       ELSE rd1

\* The parameters of a scope are not recorded
add_args_Ignored(rd, params) == rd

add_args(rd, params) == [rd EXCEPT !.defined_stack = SetTop(@, params)]

\* visit_Name: a store defines the name in the innermost scope, a load is a read
visit_Name(rd, e) ==
    IF e[1] = "W" THEN [rd EXCEPT !.defined_stack = SetTop(@, {e[2]})]
    ELSE add_name_read(rd, e[2])

\* handle_visit_scope up to the visit of the node's children
EnterScope(rd, kind, name, params, node) ==
    LET rd1 == IF kind = "Lambda" THEN rd
               ELSE LET d == add_define(rd, name, node)
                    IN IF Len(rd.defined_stack) = 1
                       THEN [d EXCEPT !.curr_top_def_name = name]
                       ELSE d
        rd2 == [rd1 EXCEPT !.defined_stack = Append(@, {})]
    IN IF kind = "ClassDef" THEN rd2 ELSE add_args(rd2, params)

\* handle_visit_scope after the visit of the node's children
LeaveScope(rd) ==
    LET stk == SubSeq(rd.defined_stack, 1, Len(rd.defined_stack) - 1)
        rd1 == [rd EXCEPT !.defined_stack = stk]
    IN IF Len(stk) = 1 THEN [rd1 EXCEPT !.curr_top_def_name = ModuleKey] ELSE rd1

\* The scope stack always holds the module scope, so the second test of the
\* guard never decides; it makes each step evaluate the reader it is given.
RECURSIVE generic_visit(_, _)
generic_visit(rd, evs) ==
    IF evs = <<>> \/ rd.defined_stack = <<>> THEN rd
    ELSE LET e == Head(evs)
             rd1 == IF e[1] = "S"
                    THEN LeaveScope(generic_visit(
                             EnterScope(rd, e[2], e[3], e[4], e), e[5]))
                    ELSE IF e[1] = "C" THEN rd
                    ELSE visit_Name(rd, e)
         IN generic_visit(rd1, Tail(evs))

handle_visit_scope(rd, node) ==
    LeaveScope(generic_visit(
        EnterScope(rd, node.k, node.name, node.params, node), node.ev))

visit_stmt(rd, node) ==
    CASE node.k \in {"Import", "ImportFrom"} ->
            [rd EXCEPT !.ordered_imports = ImportGroup_add(@, node)]
      [] node.k \in {"FunctionDef", "ClassDef"} -> handle_visit_scope(rd, node)
      [] OTHER -> generic_visit(rd, node.ev)

RECURSIVE visit_body(_, _)
visit_body(rd, body) ==
    IF body = <<>> \/ rd.defined_stack = <<>> THEN rd
    ELSE visit_body(visit_stmt(rd, Head(body)), Tail(body))

\* SourceCode.__init__: the module model of the file `origin` whose parsed
\* body is `body`, with the fields as the reader `rd` left them.
SourceCodeRead(origin, body, rd) ==
    [origin |-> origin, body |-> body,
     global_defines |-> rd.global_defines,
     ordered_imports |-> rd.ordered_imports,
     unresolved_globals |-> rd.unresolved_globals,
     dependency |-> rd.dependency]

SourceCode(origin, body) == SourceCodeRead(origin, body, visit_body(NewReader, body))

----------------------------------------------------------------------------
(* import_group.py: ImportGroup.to_asts *)

Range(seq) == {seq[i] : i \in 1..Len(seq)}

\* The sequences that enumerate a set once each: the orders in which a Python
\* set may be iterated.
Orders(S) ==
    {o \in [1..Cardinality(S) -> S] : \A x \in S : \E i \in DOMAIN o : o[i] = x}

\* The `imports` set of to_asts
PlainPairs(ordered_imports) ==
    {<<e.module, e.alias>> : e \in {x \in Range(ordered_imports) : x.t = "ImportModule"}}

\* Keys of a dict filled in the order of `ordered_imports` by the entries of
\* kind t: each module once, at the place of its first entry.
RECURSIVE DictKeys(_, _, _)
DictKeys(ordered_imports, t, seen) ==
    IF ordered_imports = <<>> THEN <<>>
    ELSE LET e == Head(ordered_imports)
         IN IF e.t = t /\ e.module \notin seen
            THEN <<e.module>> \o DictKeys(Tail(ordered_imports), t, seen \cup {e.module})
            ELSE DictKeys(Tail(ordered_imports), t, seen)

\* The alias list with every entry of the module, an alias seen before too
AliasList_NoDedupe(ordered_imports, module, s) ==
    LET OfModule(e) == e.t = "ImportFromModule" /\ e.module = module
        sel == SelectSeq(ordered_imports, OfModule)
    IN [i \in 1..Len(sel) |->
           Alias(sel[i].name, IF sel[i].alias # sel[i].name THEN sel[i].alias ELSE NoName)]

\* import_froms[module]: the alias list, an alias kept the first time it is seen
RECURSIVE AliasList(_, _, _)
AliasList(ordered_imports, module, s) ==
    IF ordered_imports = <<>> THEN <<>>
    ELSE LET e == Head(ordered_imports)
         IN IF e.t = "ImportFromModule" /\ e.module = module /\ e.alias \notin s
            THEN <<Alias(e.name, IF e.alias # e.name THEN e.alias ELSE NoName)>>
                 \o AliasList(Tail(ordered_imports), module, s \cup {e.alias})
            ELSE AliasList(Tail(ordered_imports), module, s)

ImportStarFromModule_to_ast(module) ==
    LET lm == split_module_name(module)
    IN AstImportFrom(lm[2], <<Alias("*", NoName)>>, lm[1])

\* `order` is the order in which the set `imports` is iterated.
to_asts(ordered_imports, order) ==
    LET stars == DictKeys(ordered_imports, "ImportStarFromModule", {})
        froms == DictKeys(ordered_imports, "ImportFromModule", {})
        plain == IF Len(order) > 0
                 THEN <<AstImport([i \in 1..Len(order) |->
                          Alias(order[i][1],
                                IF order[i][2] # order[i][1] THEN order[i][2] ELSE NoName)])>>
                 ELSE <<>>
    IN plain
       \o [i \in 1..Len(stars) |-> ImportStarFromModule_to_ast(stars[i])]
       \o [i \in 1..Len(froms) |->
              LET lm == split_module_name(froms[i])
              IN AstImportFrom(lm[2], AliasList(ordered_imports, froms[i], {}), lm[1])]

----------------------------------------------------------------------------
(* import_resolve.py *)

\* find_spec_from for the files of one directory: `module` (absolute, or
\* relative of level 1) is found when the directory holds a file of that
\* name; the result is the file's path, or None.
find_spec_from(fs, module, from_origin) ==
    LET lm == split_module_name(module)
    IN IF lm[2] \in DOMAIN fs THEN lm[2] ELSE None

----------------------------------------------------------------------------
(* impacker.py: the engine's state *)

VARIABLES
    files,                      \* the directory: file name |-> parsed body
    shake_tree,                 \* Impacker.shake_tree
    strip_docstring,            \* Impacker.strip_docstring
    objs,                       \* the SourceCode objects, by id(code)
    in_code,                    \* id of the SourceCode handed to pack
    source_code_cache,          \* Impacker._source_code_cache: path |-> id
    source_code_import_cache,   \* Impacker._source_code_import_cache: <<id, module>> |-> id
    source_code_requires,       \* Impacker._source_code_requires: id |-> set of names
    source_code_externals,      \* Impacker._source_code_externals: id |-> set of names
    stack,                      \* the call stack of pack: frames of
                                \* _gather_source_code_requires_from_imports and _pack_from
    visited,                    \* the `visited` set shared by the calls of _pack_from
    pc,                         \* where pack is
    ret,                        \* what the root call of _pack_from returned
    outputs,                    \* the texts returned by the pack calls so far
    err                         \* the exception pack raised, if any

vars == <<files, shake_tree, strip_docstring, objs, in_code, source_code_cache,
          source_code_import_cache, source_code_requires, source_code_externals,
          stack, visited, pc, ret, outputs, err>>

NoCode == 0
NoError == "none"

Top == stack[Len(stack)]
Below == SubSeq(stack, 1, Len(stack) - 1)

\* The part of the engine that loading a module changes, and the exception
\* that loading raised
Eng ==
    [ret |-> NoCode, objs |-> objs, cache |-> source_code_cache,
     icache |-> source_code_import_cache, requires |-> source_code_requires,
     err |-> NoError]

\* SourceCode.__init__, lines 43-45: the body of a file that ast.parse rejects
Unparsable ==
    <<[k |-> "SyntaxError", name |-> NoName, module |-> NoName, names |-> <<>>,
       level |-> 0, params |-> {}, ev |-> <<>>, lineno |-> 0, col_offset |-> 0]>>

\* Impacker._put_source_code
put_source_code(E, id, code) ==
    [E EXCEPT !.cache = Put(@, code.origin, id), !.requires = Put(@, id, {})]

\* Impacker.get_source_code, lines 241-243: the new object `code` gets the
\* next id
new_source_code(E, code) ==
    put_source_code([E EXCEPT !.ret = Len(E.objs) + 1, !.objs = Append(@, code)],
                    Len(E.objs) + 1, code)

\* Every request loads the file anew
get_source_code_NoCache(E, spec) ==
    IF files[spec] = Unparsable THEN [E EXCEPT !.err = "SyntaxError"]
    ELSE new_source_code(E, SourceCode(spec, files[spec]))

\* A file that cannot be loaded is taken for a module that was not found
get_source_code_Swallow(E, spec) ==
    IF spec \in DOMAIN E.cache THEN [E EXCEPT !.ret = E.cache[spec]]
    ELSE IF files[spec] = Unparsable THEN [E EXCEPT !.ret = NoCode]
    ELSE new_source_code(E, SourceCode(spec, files[spec]))

\* Impacker.get_source_code: the exception of SourceCode(spec) leaves it at
\* line 241
get_source_code(E, spec) ==
    IF spec \in DOMAIN E.cache THEN [E EXCEPT !.ret = E.cache[spec]]
    ELSE IF files[spec] = Unparsable THEN [E EXCEPT !.err = "SyntaxError"]
    ELSE new_source_code(E, SourceCode(spec, files[spec]))

\* Impacker.get_import, lines 265-266: G is the engine after line 263, where
\* an exception of get_source_code leaves get_import
put_import(G, code_id, module) ==
    IF G.err # NoError THEN G
    ELSE [G EXCEPT !.icache = Put(@, <<code_id, module>>, G.ret)]

\* Impacker.get_import
get_import(E, code_id, module) ==
    IF <<code_id, module>> \in DOMAIN E.icache
    THEN [E EXCEPT !.ret = E.icache[<<code_id, module>>]]
    ELSE LET spec == find_spec_from(files, module, E.objs[code_id].origin)
         IN put_import(IF spec # None THEN get_source_code(E, spec)
                       ELSE [E EXCEPT !.ret = NoCode],
                       code_id, module)

----------------------------------------------------------------------------
(* impacker.py: requirement propagation *)

\* The loop without the dependency edges of the definitions it marks
MarkLoop_NoDependency(code, requires, req_set, externals) ==
    LET fresh == {r \in requires : r \notin req_set}
        defined == {r \in fresh : r \in DOMAIN code.global_defines}
    IN [req_set |-> req_set \cup defined, externals |-> externals \cup (fresh \ defined)]

\* The while loop of _mark_source_code_requires
RECURSIVE MarkLoop(_, _, _, _)
MarkLoop(code, requires, req_set, externals) ==
    IF requires = {} THEN [req_set |-> req_set, externals |-> externals]
    ELSE LET fresh == {r \in requires : r \notin req_set /\ r \notin externals}
             defined == {r \in fresh : r \in DOMAIN code.global_defines}
             next_requires == UNION {GetSet(code.dependency, r) : r \in defined}
         IN MarkLoop(code, next_requires, req_set \cup defined,
                     externals \cup (fresh \ defined))

\* The external record keeps only the names that no named import of the
\* module binds
mark_source_code_requires_Unbound(req_map, ext_map, code_id, code, requires) ==
    IF requires = {}
    THEN [requires |-> req_map, externals |-> ext_map, pending |-> {}, called |-> FALSE]
    ELSE LET loop == MarkLoop(code, requires, GetSet(req_map, code_id), {})
             prev_externals == GetSet(ext_map, code_id)
             externals == loop.externals \ prev_externals
             bound == {e.alias : e \in {x \in Range(code.ordered_imports) :
                                            x.t = "ImportFromModule"}}
         IN [requires |-> Put(req_map, code_id, loop.req_set),
             externals |-> Put(ext_map, code_id, prev_externals \cup (externals \ bound)),
             pending |-> externals, called |-> TRUE]

\* The external record replaced by the names found external in this call
mark_source_code_requires_Replace(req_map, ext_map, code_id, code, requires) ==
    IF requires = {}
    THEN [requires |-> req_map, externals |-> ext_map, pending |-> {}, called |-> FALSE]
    ELSE LET loop == MarkLoop(code, requires, GetSet(req_map, code_id), {})
             externals == loop.externals \ GetSet(ext_map, code_id)
         IN [requires |-> Put(req_map, code_id, loop.req_set),
             externals |-> Put(ext_map, code_id, externals),
             pending |-> externals, called |-> TRUE]

\* _mark_source_code_requires up to its call of
\* _gather_source_code_requires_from_imports: the two records after it, and
\* the set it hands to that call (`called` is FALSE when it returns at once).
mark_source_code_requires(req_map, ext_map, code_id, code, requires) ==
    IF requires = {}
    THEN [requires |-> req_map, externals |-> ext_map, pending |-> {}, called |-> FALSE]
    ELSE LET loop == MarkLoop(code, requires, GetSet(req_map, code_id), {})
             prev_externals == GetSet(ext_map, code_id)
             externals == loop.externals \ prev_externals
         IN [requires |-> Put(req_map, code_id, loop.req_set),
             externals |-> Put(ext_map, code_id, prev_externals \cup externals),
             pending |-> externals, called |-> TRUE]

GatherFrame(code_id, requires, n) ==
    [fn |-> "gather", code |-> code_id, requires |-> requires, i |-> n,
     chunks |-> <<>>, import_group |-> <<>>, is_root |-> FALSE]

\* Lines 228 and 232-233: the call of _mark_source_code_requires made M of the
\* records; `left` is what stays pending in the caller.
GatherMarked(G, M, left) ==
    [eng |-> [G EXCEPT !.requires = M.requires],
     externals |-> M.externals,
     requires |-> left,
     push |-> IF M.called
              THEN <<GatherFrame(G.ret, M.pending, Len(G.objs[G.ret].ordered_imports))>>
              ELSE <<>>]

\* A wildcard import forwards only the first of the pending names
GatherResolved_StarForwardsOne(fr, imp, G) ==
    LET hit == IF imp.t = "ImportStarFromModule" THEN G.ret # NoCode
               ELSE G.ret # NoCode /\ imp.alias \in fr.requires
        asked == IF imp.t = "ImportStarFromModule"
                 THEN {CHOOSE n \in fr.requires : TRUE}
                 ELSE {imp.name}
        left == IF imp.t = "ImportStarFromModule" THEN fr.requires
                ELSE fr.requires \ {imp.alias}
    IN IF ~hit
       THEN [eng |-> G, externals |-> source_code_externals,
             requires |-> fr.requires, push |-> <<>>]
       ELSE GatherMarked(G,
                mark_source_code_requires(G.requires, source_code_externals, G.ret,
                                          G.objs[G.ret], asked),
                left)

\* The alias of a named import stays pending after the import resolved it
GatherResolved_KeepPending(fr, imp, G) ==
    LET hit == IF imp.t = "ImportStarFromModule" THEN G.ret # NoCode
               ELSE G.ret # NoCode /\ imp.alias \in fr.requires
        asked == IF imp.t = "ImportStarFromModule" THEN fr.requires
                 ELSE {imp.name}
    IN IF ~hit
       THEN [eng |-> G, externals |-> source_code_externals,
             requires |-> fr.requires, push |-> <<>>]
       ELSE GatherMarked(G,
                mark_source_code_requires(G.requires, source_code_externals, G.ret,
                                          G.objs[G.ret], asked),
                fr.requires)

\* Lines 226-233: get_import made G of the engine
GatherResolved(fr, imp, G) ==
    LET hit == IF imp.t = "ImportStarFromModule" THEN G.ret # NoCode
               ELSE G.ret # NoCode /\ imp.alias \in fr.requires
        asked == IF imp.t = "ImportStarFromModule" THEN fr.requires
                 ELSE {imp.name}
        left == IF imp.t = "ImportStarFromModule" THEN fr.requires
                ELSE fr.requires \ {imp.alias}
    IN IF ~hit
       THEN [eng |-> G, externals |-> source_code_externals,
             requires |-> fr.requires, push |-> <<>>]
       ELSE GatherMarked(G,
                mark_source_code_requires(G.requires, source_code_externals, G.ret,
                                          G.objs[G.ret], asked),
                left)

\* One iteration of the loop of _gather_source_code_requires_from_imports, in
\* the frame `fr` at import entry `imp`: the engine after it, the frame after
\* it and the frame of the call it makes, if any.
GatherImport(fr, imp) ==
    IF imp.t = "ImportModule"
    THEN [eng |-> Eng, externals |-> source_code_externals,
          requires |-> fr.requires, push |-> <<>>]
    ELSE GatherResolved(fr, imp, get_import(Eng, fr.code, imp.module))

SetEngine(E) ==
    /\ objs' = E.objs
    /\ source_code_cache' = E.cache
    /\ source_code_import_cache' = E.icache
    /\ source_code_requires' = E.requires

\* pack, lines 83-88: register the entry module, seed its externals and start
\* the propagation when shaking is enabled.
Pack ==
    /\ pc = "start"
    /\ LET code == objs[in_code]
           E == put_source_code(Eng, in_code, code)
       IN /\ SetEngine(E)
          /\ source_code_externals' =
                 Put(source_code_externals, in_code, code.unresolved_globals)
          /\ IF shake_tree
             THEN /\ stack' = <<GatherFrame(in_code, code.unresolved_globals,
                                            Len(code.ordered_imports))>>
                  /\ pc' = "mark"
             ELSE /\ stack' = <<>>
                  /\ pc' = "pack"
    /\ UNCHANGED <<files, shake_tree, strip_docstring, in_code, visited, ret, outputs, err>>

\* The engine and the stack after one iteration, of result r, in the frame fr;
\* an exception raised by get_import ends every call on the stack and pack
GatherDone(fr, r) ==
    /\ SetEngine(r.eng)
    /\ source_code_externals' = r.externals
    /\ IF r.eng.err # NoError
       THEN /\ stack' = <<>>
            /\ pc' = "failed"
            /\ err' = r.eng.err
       ELSE /\ stack' = Below
                        \o <<[fr EXCEPT !.i = fr.i - 1, !.requires = r.requires]>>
                        \o r.push
            /\ UNCHANGED <<pc, err>>

\* _gather_source_code_requires_from_imports: one import entry, walking
\* ordered_imports from the last entry to the first.
GatherStep ==
    /\ pc = "mark" /\ stack # <<>>
    /\ Top.fn = "gather" /\ Top.i >= 1 /\ Top.requires # {}
    /\ GatherDone(Top, GatherImport(Top, objs[Top.code].ordered_imports[Top.i]))
    /\ UNCHANGED <<files, shake_tree, strip_docstring, in_code, visited, ret, outputs>>

\* _gather_source_code_requires_from_imports returns: nothing is left to
\* resolve, or every import entry was consulted.
GatherReturn ==
    /\ pc = "mark" /\ stack # <<>>
    /\ Top.fn = "gather" /\ (Top.i = 0 \/ Top.requires = {})
    /\ stack' = Below
    /\ pc' = IF Below = <<>> THEN "pack" ELSE pc
    /\ UNCHANGED <<files, shake_tree, strip_docstring, objs, in_code, source_code_cache,
                   source_code_import_cache, source_code_requires,
                   source_code_externals, visited, ret, outputs, err>>

----------------------------------------------------------------------------
(* impacker.py: assembly *)

\* code.name: the file name, or "main code" for the root
CodeName(code, is_root) == IF is_root THEN MainCodeName ELSE code.origin

\* CodeChunk(comment, chunk)
CodeChunk(name, code_name, lineno, chunk) ==
    [comment |-> [name |-> name, code_name |-> code_name, lineno |-> lineno],
     chunk |-> chunk]

\* _pack_from, lines 155-164: the statements kept of a module emitted whole
RECURSIVE AliasAssigns(_)
AliasAssigns(names) ==
    IF names = <<>> THEN <<>>
    ELSE LET a == Head(names)
         IN (IF a.asname # NoName THEN <<AstAssign(a.asname, a.name)>> ELSE <<>>)
            \o AliasAssigns(Tail(names))

RECURSIVE WholeBody(_)
WholeBody(body) ==
    IF body = <<>> THEN <<>>
    ELSE LET stmt == Head(body)
         IN (CASE stmt.k = "Import" -> <<>>
               [] stmt.k = "ImportFrom" -> AliasAssigns(stmt.names)
               [] OTHER -> <<stmt>>)
            \o WholeBody(Tail(body))

\* (lineno, col_offset) tuples compared as Python compares tuples
PosLess(a, b) ==
    \/ a.lineno < b.lineno
    \/ a.lineno = b.lineno /\ a.col_offset < b.col_offset

\* sorted(req_defs): insertion of each definition at its place
RECURSIVE InsertDef(_, _)
InsertDef(sorted_defs, d) ==
    IF sorted_defs = <<>> THEN <<d>>
    ELSE IF PosLess(d, Head(sorted_defs)) THEN <<d>> \o sorted_defs
    ELSE <<Head(sorted_defs)>> \o InsertDef(Tail(sorted_defs), d)

\* The definitions left in the order in which the required set was iterated
SortDefs_Unsorted(req_defs) == req_defs

RECURSIVE SortDefs(_)
SortDefs(req_defs) ==
    IF req_defs = <<>> THEN <<>>
    ELSE InsertDef(SortDefs(Tail(req_defs)), Head(req_defs))

\* _pack_from, lines 169-172: the definitions of the required names, in the
\* order `order` in which the set `requires` is iterated
ReqDefs(code, order) == [i \in 1..Len(order) |-> code.global_defines[order[i]]]

\* The chunks of a module whose definitions are all emitted, as when nothing
\* is shaken
OwnChunks_NoShake(code, is_root, requires, order) ==
    LET stmts == WholeBody(code.body)
    IN IF stmts # <<>>
       THEN <<CodeChunk(NoName, CodeName(code, is_root), 0, stmts)>>
       ELSE <<>>

\* The chunks of a module when only the root is emitted whole
OwnChunks_RootOnly(code, is_root, requires, order) ==
    IF is_root
    THEN LET stmts == WholeBody(code.body)
         IN IF stmts # <<>>
            THEN <<CodeChunk(NoName, CodeName(code, is_root), 0, stmts)>>
            ELSE <<>>
    ELSE <<>>

\* _pack_from, lines 152-174: the chunks of the module itself
OwnChunks(code, is_root, requires, order) ==
    IF is_root \/ ~shake_tree
    THEN LET stmts == WholeBody(code.body)
         IN IF stmts # <<>>
            THEN <<CodeChunk(NoName, CodeName(code, is_root), 0, stmts)>>
            ELSE <<>>
    ELSE IF requires # {}
    THEN LET defs == SortDefs(ReqDefs(code, order))
         IN [i \in 1..Len(defs) |->
                CodeChunk(defs[i].name, CodeName(code, is_root), defs[i].lineno,
                          <<defs[i]>>)]
    ELSE <<>>

\* What line 171 or the sort of line 174 raises, if anything
OwnChunksError(code, is_root, requires) ==
    IF is_root \/ ~shake_tree THEN NoError
    ELSE IF \E r \in requires : r \notin DOMAIN code.global_defines THEN "KeyError"
    ELSE IF \E r1, r2 \in requires :
               /\ r1 # r2
               /\ ~PosLess(code.global_defines[r1], code.global_defines[r2])
               /\ ~PosLess(code.global_defines[r2], code.global_defines[r1])
    THEN "TypeError"
    ELSE NoError

\* _pack_from, lines 115-133
PackFrame(code_id, is_root) ==
    [fn |-> "pack", code |-> code_id, requires |-> {}, i |-> 1,
     chunks |-> <<>>, import_group |-> <<>>, is_root |-> is_root]

\* the truth value of `externals` at lines 138 and 149
Truthy(ext_map, code_id) == code_id \in DOMAIN ext_map /\ ext_map[code_id] # {}

\* An import that get_import does not find is left out of the import group
PackResolved_DropUnresolved(fr, imp, G) ==
    IF G.ret # NoCode /\ G.ret \notin visited
    THEN [eng |-> G, add |-> <<>>, push |-> <<PackFrame(G.ret, FALSE)>>]
    ELSE [eng |-> G, add |-> <<>>, push |-> <<>>]

\* An import that get_import does not find is kept, with shaking enabled, only
\* when its own alias is in the external set of the module
PackResolved_AliasFilter(fr, imp, G) ==
    LET need_externals == shake_tree
    IN IF G.ret # NoCode
       THEN IF G.ret \notin visited
            THEN [eng |-> G, add |-> <<>>, push |-> <<PackFrame(G.ret, FALSE)>>]
            ELSE [eng |-> G, add |-> <<>>, push |-> <<>>]
       ELSE IF (~need_externals)
               \/ (imp.t = "ImportFromModule"
                     /\ imp.alias \in GetSet(source_code_externals, fr.code))
               \/ (imp.t # "ImportFromModule"
                     /\ Truthy(source_code_externals, fr.code))
            THEN [eng |-> G, add |-> <<imp>>, push |-> <<>>]
            ELSE [eng |-> G, add |-> <<>>, push |-> <<>>]

\* _pack_from, lines 141-150: get_import made G of the engine
PackResolved(fr, imp, G) ==
    LET need_externals == shake_tree
    IN IF G.ret # NoCode
       THEN IF G.ret \notin visited
            THEN [eng |-> G, add |-> <<>>, push |-> <<PackFrame(G.ret, FALSE)>>]
            ELSE [eng |-> G, add |-> <<>>, push |-> <<>>]
       ELSE IF (~need_externals) \/ Truthy(source_code_externals, fr.code)
            THEN [eng |-> G, add |-> <<imp>>, push |-> <<>>]
            ELSE [eng |-> G, add |-> <<>>, push |-> <<>>]

\* Every plain import is added to the import group
PackImport_KeepPlain(fr, imp) ==
    IF imp.t = "ImportModule"
    THEN [eng |-> Eng, add |-> <<imp>>, push |-> <<>>]
    ELSE PackResolved(fr, imp, get_import(Eng, fr.code, imp.module))

\* _pack_from, lines 134-150: one import entry `imp` in the frame `fr`
PackImport(fr, imp) ==
    LET need_externals == shake_tree
        externals == GetSet(source_code_externals, fr.code)
    IN IF imp.t = "ImportModule"
       THEN IF (~need_externals)
               \/ (Truthy(source_code_externals, fr.code) /\ imp.alias \in externals)
            THEN [eng |-> Eng, add |-> <<imp>>, push |-> <<>>]
            ELSE [eng |-> Eng, add |-> <<>>, push |-> <<>>]
       ELSE PackResolved(fr, imp, get_import(Eng, fr.code, imp.module))

\* The module's own chunks put before those of the modules it imports
ExtendChunks_OwnFirst(chunks, own) == own \o chunks

\* _pack_from, lines 145, 166 and 174: the chunks of the imported modules,
\* spliced in as they return, then the module's own
ExtendChunks(chunks, own) == chunks \o own

\* The root call without line 122: the entry module is not marked visited
PackFromRoot_NotVisited ==
    /\ pc = "pack" /\ stack = <<>>
    /\ stack' = <<PackFrame(in_code, visited = {})>>
    /\ UNCHANGED <<files, shake_tree, strip_docstring, objs, in_code, source_code_cache,
                   source_code_import_cache, source_code_requires,
                   source_code_externals, visited, pc, ret, outputs, err>>

\* pack, line 92: the root call of _pack_from
PackFromRoot ==
    /\ pc = "pack" /\ stack = <<>>
    /\ stack' = <<PackFrame(in_code, visited = {})>>
    /\ visited' = visited \cup {in_code}
    /\ UNCHANGED <<files, shake_tree, strip_docstring, objs, in_code, source_code_cache,
                   source_code_import_cache, source_code_requires,
                   source_code_externals, pc, ret, outputs, err>>

\* The engine, the stack and `visited` after one iteration, of result r, in
\* the frame fr; an exception raised by get_import ends every call on the
\* stack and pack
PackDone(fr, r) ==
    /\ SetEngine(r.eng)
    /\ IF r.eng.err # NoError
       THEN /\ stack' = <<>>
            /\ pc' = "failed"
            /\ err' = r.eng.err
            /\ UNCHANGED visited
       ELSE /\ stack' = Below
                        \o <<[fr EXCEPT !.i = fr.i + 1, !.import_group = @ \o r.add]>>
                        \o r.push
            /\ visited' = visited \cup {f.code : f \in Range(r.push)}
            /\ UNCHANGED <<pc, err>>

\* _pack_from: one import entry, in declaration order; a resolved module not
\* yet visited is packed by a nested call.
PackStep ==
    /\ pc = "pack" /\ stack # <<>>
    /\ Top.fn = "pack" /\ Top.i <= Len(objs[Top.code].ordered_imports)
    /\ PackDone(Top, PackImport(Top, objs[Top.code].ordered_imports[Top.i]))
    /\ UNCHANGED <<files, shake_tree, strip_docstring, in_code, source_code_externals, ret, outputs>>

\* _pack_from returns: the module's own chunks follow those of its imports;
\* the caller extends its chunks and its import group with the result.
PackReturn ==
    /\ pc = "pack" /\ stack # <<>>
    /\ Top.fn = "pack" /\ Top.i > Len(objs[Top.code].ordered_imports)
    /\ LET fr == Top
           code == objs[fr.code]
           requires == GetSet(source_code_requires, fr.code)
           error == OwnChunksError(code, fr.is_root, requires)
       IN IF error # NoError
          THEN /\ err' = error
               /\ pc' = "failed"
               /\ stack' = <<>>
               /\ UNCHANGED ret
          ELSE \E order \in Orders(IF fr.is_root \/ ~shake_tree THEN {} ELSE requires) :
                 LET all == ExtendChunks(fr.chunks,
                                        OwnChunks(code, fr.is_root, requires, order))
                 IN IF Below = <<>>
                    THEN /\ ret' = [chunks |-> all, import_group |-> fr.import_group]
                         /\ pc' = "header"
                         /\ stack' = <<>>
                         /\ UNCHANGED err
                    ELSE /\ stack' = SubSeq(Below, 1, Len(Below) - 1)
                              \o <<[Below[Len(Below)] EXCEPT
                                      !.chunks = @ \o all,
                                      !.import_group = @ \o fr.import_group]>>
                         /\ UNCHANGED <<pc, ret, err>>
    /\ UNCHANGED <<files, shake_tree, strip_docstring, objs, in_code, source_code_cache,
                   source_code_import_cache, source_code_requires,
                   source_code_externals, visited, outputs>>

\* ast.unparse: the text of a statement carries no position
Unparse(stmt) == [stmt EXCEPT !.lineno = 0, !.col_offset = 0]

\* CodeChunk.to_code
to_code(chunk) ==
    [comment |-> chunk.comment,
     code |-> [i \in 1..Len(chunk.chunk) |-> Unparse(chunk.chunk[i])]]

----------------------------------------------------------------------------
(* docstring_remover.py, and its use by pack *)

\* What a NodeTransformer puts in place of a node it removes
AstNone ==
    [k |-> "None", name |-> NoName, module |-> NoName, names |-> <<>>,
     level |-> 0, params |-> {}, ev |-> <<>>, lineno |-> 0, col_offset |-> 0]

\* NodeTransformer.generic_visit over the body of a node: visit_Expr removes
\* every expression statement that is a constant, of any kind
RECURSIVE StripEvents(_)
StripEvents(evs) ==
    IF evs = <<>> THEN <<>>
    ELSE LET e == Head(evs)
         IN (IF e[1] = "C" THEN <<>>
             ELSE IF e[1] = "S" THEN <<Scope(e[2], e[3], e[4], StripEvents(e[5]))>>
             ELSE <<e>>)
            \o StripEvents(Tail(evs))

\* DocstringRemover.visit(stmt): None for a constant expression statement,
\* the node with its body transformed otherwise
DocstringRemover(stmt) ==
    IF stmt.k = "Expr" THEN AstNone ELSE [stmt EXCEPT !.ev = StripEvents(@)]

\* CodeChunk.apply_transform
apply_transform(chunk) ==
    [chunk EXCEPT !.chunk = [i \in 1..Len(chunk.chunk) |-> DocstringRemover(chunk.chunk[i])]]

\* pack, lines 97-99: the chunks as the transform leaves them
Transformed(chunks) ==
    IF strip_docstring
    THEN [i \in 1..Len(chunks) |-> apply_transform(chunks[i])]
    ELSE chunks

\* The definitions that the chunks hold of the module of the object o: the
\* nodes of the chunks are those of the module's tree
EmittedDefs(chunks, o) ==
    {st \in UNION {Range(chunks[i].chunk) :
                     i \in {j \in 1..Len(chunks) :
                               o.origin = IF chunks[j].comment.code_name = MainCodeName
                                          THEN objs[in_code].origin
                                          ELSE chunks[j].comment.code_name}} :
        st.k \in {"FunctionDef", "ClassDef"}}

\* The transform works in place: a definition that a chunk holds is changed
\* in the tree and in the global_defines of its module as well
TransformedObject(chunks, o) ==
    IF strip_docstring
    THEN [o EXCEPT
            !.body = [i \in 1..Len(@) |->
                        IF @[i] \in EmittedDefs(chunks, o)
                        THEN DocstringRemover(@[i]) ELSE @[i]],
            !.global_defines = [n \in DOMAIN @ |->
                        IF @[n] \in EmittedDefs(chunks, o)
                        THEN DocstringRemover(@[n]) ELSE @[n]]]
    ELSE o

\* ast.unparse(None) raises AttributeError
to_code_error(chunks) ==
    IF \E i \in 1..Len(chunks) : AstNone \in Range(chunks[i].chunk)
    THEN "AttributeError" ELSE NoError

\* pack, lines 93-106: the merged import header, the transform of the chunks
\* when stripping is requested, and the text of the chunks
Finish ==
    /\ pc = "header"
    /\ ret' = [ret EXCEPT !.chunks = Transformed(ret.chunks)]
    /\ objs' = [id \in 1..Len(objs) |-> TransformedObject(ret.chunks, objs[id])]
    /\ IF to_code_error(Transformed(ret.chunks)) # NoError
       THEN /\ pc' = "failed"
            /\ err' = to_code_error(Transformed(ret.chunks))
            /\ UNCHANGED outputs
       ELSE /\ \E order \in Orders(PlainPairs(ret.import_group)) :
                 outputs' = Append(outputs,
                    [import_header |->
                         IF ret.import_group # <<>>
                         THEN LET asts == to_asts(ret.import_group, order)
                              IN [i \in 1..Len(asts) |-> Unparse(asts[i])]
                         ELSE <<>>,
                     import_body |-> [i \in 1..Len(ret.chunks) |->
                                         to_code(Transformed(ret.chunks)[i])]])
            /\ pc' = "done"
            /\ UNCHANGED err
    /\ UNCHANGED <<files, shake_tree, strip_docstring, in_code, source_code_cache,
                   source_code_import_cache, source_code_requires,
                   source_code_externals, stack, visited>>

----------------------------------------------------------------------------
(* The programs packed: a directory with the entry file main and the files  *)
(* a and b, or with some of them missing; ext and os name no file of it.    *)

From(module, name) == AstImportFrom(module, <<Alias(name, NoName)>>, 0)
FromAs(module, name, asname) == AstImportFrom(module, <<Alias(name, asname)>>, 0)
RelFrom(module, name) == AstImportFrom(module, <<Alias(name, NoName)>>, 1)
Star(module) == AstImportFrom(module, <<Alias("*", NoName)>>, 0)
Imp(module) == AstImport(<<Alias(module, NoName)>>)
ImpAs(module, asname) == AstImport(<<Alias(module, asname)>>)
Def(name, lineno, ev) == AstDef(name, {}, ev, lineno, 0)
Lambda(params, ev) == Scope("Lambda", NoName, params, ev)

MainBodies ==
    { \* from a import f / print(f())
      <<From("a", "f"), AstStmt(<<R("print"), R("f")>>)>>,
      \* from a import * / def unused(): pass / f()
      <<Star("a"), Def("unused", 2, <<>>), AstStmt(<<R("f")>>)>>,
      \* from a import f as F / from ext import y as z / F(z)
      <<FromAs("a", "f", "F"), FromAs("ext", "y", "z"), AstStmt(<<R("F"), R("z")>>)>>,
      \* import os / from .a import g / def m(): return g(os.x) / m()
      <<Imp("os"), RelFrom("a", "g"), Def("m", 3, <<R("g"), R("os")>>),
        AstStmt(<<R("m")>>)>>,
      \* from a import f / from b import * / f(); h()
      <<From("a", "f"), Star("b"), AstStmt(<<R("f"), R("h")>>)>>,
      \* from a import * / from b import f / import sys / f()
      <<Star("a"), From("b", "f"), Imp("sys"), AstStmt(<<R("f")>>)>>,
      \* from ext import x as y / from ext import z as y / import os / import os as o / y(o)
      <<FromAs("ext", "x", "y"), FromAs("ext", "z", "y"), Imp("os"), ImpAs("os", "o"),
        AstStmt(<<R("y"), R("o")>>)>>,
      \* from b import k / from ext import * / k()
      <<From("b", "k"), Star("ext"), AstStmt(<<R("k")>>)>>,
      \* print()
      <<AstStmt(<<R("print")>>)>> }

ABodies ==
    { \* def f(): return g() / def g(): return 1 / def dead(): pass
      <<Def("f", 1, <<R("g")>>), Def("g", 3, <<>>), Def("dead", 5, <<>>)>>,
      \* from b import h, k / def g(): h() / def f(): g(); print()
      <<AstImportFrom("b", <<Alias("h", NoName), Alias("k", NoName)>>, 0),
        Def("g", 2, <<R("h")>>), Def("f", 4, <<R("g"), R("print")>>)>>,
      \* from b import * / import os / def f(): h(os)
      <<Star("b"), Imp("os"), Def("f", 3, <<R("h"), R("os")>>)>>,
      \* from main import m / def f(): m() / def g(): f()
      <<From("main", "m"), Def("f", 2, <<R("m")>>), Def("g", 4, <<R("f")>>)>>,
      \* from .b import h as hh / from ext import x / def f(): hh(x) / def g(): f()
      <<AstImportFrom("b", <<Alias("h", "hh")>>, 1), From("ext", "x"),
        Def("f", 3, <<R("hh"), R("x")>>), Def("g", 5, <<R("f")>>)>>,
      \* from b import *
      <<Star("b")>>,
      \* import os / from ext import * / X = 1 / def f(): return X + os.x / def g(): f()
      <<Imp("os"), Star("ext"), AstStmt(<<W("X")>>),
        Def("f", 4, <<R("X"), R("os")>>), Def("g", 6, <<R("f")>>)>> }

BBodies ==
    { \* def h(): return k() / def k(): pass / def f(): pass
      <<Def("h", 1, <<R("k")>>), Def("k", 3, <<>>), Def("f", 5, <<>>)>>,
      \* from a import g / def k(): h() / def h(): g()
      <<From("a", "g"), Def("k", 2, <<R("h")>>), Def("h", 4, <<R("g")>>)>>,
      \* from a import * / import os / def h(): f(); os.x / def f(): pass
      <<Star("a"), Imp("os"), Def("h", 3, <<R("f"), R("os")>>), Def("f", 5, <<>>)>>,
      \* import os as o / from ext import z as y / def h(): y(o) / def f(): h() / def k(): pass
      <<ImpAs("os", "o"), FromAs("ext", "z", "y"), Def("h", 3, <<R("y"), R("o")>>),
        Def("f", 5, <<R("h")>>), Def("k", 7, <<>>)>>,
      \* from b import k / def h(): k() / def k(): pass
      <<From("b", "k"), Def("h", 2, <<R("k")>>), Def("k", 4, <<>>)>> }

\* The directory holding main, and a and b when has_a and has_b say so
Directory(m, a, b, has_a, has_b) ==
    [p \in {"main"} \cup (IF has_a THEN {"a"} ELSE {})
                    \cup (IF has_b THEN {"b"} ELSE {}) |->
        IF p = "main" THEN m ELSE IF p = "a" THEN a ELSE b]

\* Entry files without imports and without definitions: the statements
\* x = 1, print(x), x(y), (lambda a: a + y), print(y); y = 2
MaxPlainStmts == 2

PlainStmts ==
    { AstStmt(<<W("x")>>),
      AstStmt(<<R("print"), R("x")>>),
      AstStmt(<<R("x"), R("y")>>),
      AstStmt(<<Lambda({"a"}, <<R("a"), R("y")>>)>>),
      AstStmt(<<R("print"), R("y"), W("y")>>) }

PlainBodies == UNION {[1..n -> PlainStmts] : n \in 0..MaxPlainStmts}

Programs ==
    UNION {{Directory(m, a, b, has_a, has_b) :
                m \in MainBodies, a \in ABodies, b \in BBodies} :
           has_a \in BOOLEAN, has_b \in BOOLEAN}
    \cup {Directory(m, <<>>, <<>>, FALSE, FALSE) : m \in PlainBodies}

----------------------------------------------------------------------------
(* cli: one run of the command packs the entry file with a new engine.      *)

MaxPacks == 2

\* cli.main, lines 32-33: a new Impacker, and the SourceCode of the entry file
NewEngine(fs, entry) ==
    /\ files = fs
    /\ objs = <<SourceCode(entry, fs[entry])>>
    /\ in_code = 1
    /\ source_code_cache = [x \in {} |-> NoCode]
    /\ source_code_import_cache = [x \in {} |-> NoCode]
    /\ source_code_requires = EmptyDict
    /\ source_code_externals = EmptyDict
    /\ stack = <<>>
    /\ visited = {}
    /\ pc = "start"
    /\ ret = [chunks |-> <<>>, import_group |-> <<>>]
    /\ err = NoError

Init ==
    /\ shake_tree \in BOOLEAN
    /\ strip_docstring = FALSE
    /\ outputs = <<>>
    /\ \E fs \in Programs : NewEngine(fs, "main")

\* ast.parse of a text that pack returned: the statements of the header and
\* of the chunks, each definition at the line where it now stands.
RECURSIVE Flatten(_)
Flatten(seqs) == IF seqs = <<>> THEN <<>> ELSE Head(seqs) \o Flatten(Tail(seqs))

Parse(text) ==
    LET stmts == text.import_header
                 \o Flatten([i \in 1..Len(text.import_body) |-> text.import_body[i].code])
    IN [i \in 1..Len(stmts) |->
           IF stmts[i].k \in {"FunctionDef", "ClassDef"}
           THEN [stmts[i] EXCEPT !.lineno = i]
           ELSE stmts[i]]

\* The command run again on the file it wrote, alone in its directory
Repack ==
    /\ pc = "done" /\ Len(outputs) < MaxPacks
    /\ LET fs == [p \in {"out"} |-> Parse(outputs[Len(outputs)])]
       IN /\ files' = fs
          /\ objs' = <<SourceCode("out", fs["out"])>>
    /\ in_code' = 1
    /\ source_code_cache' = [x \in {} |-> NoCode]
    /\ source_code_import_cache' = [x \in {} |-> NoCode]
    /\ source_code_requires' = EmptyDict
    /\ source_code_externals' = EmptyDict
    /\ stack' = <<>>
    /\ visited' = {}
    /\ pc' = "start"
    /\ ret' = [chunks |-> <<>>, import_group |-> <<>>]
    /\ UNCHANGED <<shake_tree, strip_docstring, outputs, err>>

Next ==
    \/ Pack
    \/ GatherStep
    \/ GatherReturn
    \/ PackFromRoot
    \/ PackStep
    \/ PackReturn
    \/ Finish
    \/ Repack

Spec == Init /\ [][Next]_vars

\* The command run again on the same entry file in the same directory: a new
\* process, a new Impacker, the entry file loaded anew
Rerun ==
    /\ pc = "done" /\ Len(outputs) < MaxPacks
    /\ objs' = <<SourceCode(objs[in_code].origin, files[objs[in_code].origin])>>
    /\ in_code' = 1
    /\ source_code_cache' = [x \in {} |-> NoCode]
    /\ source_code_import_cache' = [x \in {} |-> NoCode]
    /\ source_code_requires' = EmptyDict
    /\ source_code_externals' = EmptyDict
    /\ stack' = <<>>
    /\ visited' = {}
    /\ pc' = "start"
    /\ ret' = [chunks |-> <<>>, import_group |-> <<>>]
    /\ UNCHANGED <<files, shake_tree, strip_docstring, outputs, err>>

RerunNext ==
    \/ Pack
    \/ GatherStep
    \/ GatherReturn
    \/ PackFromRoot
    \/ PackStep
    \/ PackReturn
    \/ Finish
    \/ Rerun

\* Independent runs of the command on one entry file and one directory
RerunSpec == Init /\ [][RerunNext]_vars

\* A library user's calls: pack of a by a new engine, pack of main by another
\* new engine, and pack of a by the engine that packed main. The first call is
\* the one of ReuseInit.
ReuseInit ==
    /\ shake_tree \in BOOLEAN
    /\ strip_docstring = FALSE
    /\ outputs = <<>>
    /\ \E m \in MainBodies, a \in ABodies, b \in BBodies, has_b \in BOOLEAN :
           NewEngine(Directory(m, a, b, TRUE, has_b), "a")

\* Impacker(...) and SourceCode.from_path(main): the second call
PackMainFresh ==
    /\ pc = "done" /\ Len(outputs) = 1
    /\ objs' = <<SourceCode("main", files["main"])>>
    /\ in_code' = 1
    /\ source_code_cache' = [x \in {} |-> NoCode]
    /\ source_code_import_cache' = [x \in {} |-> NoCode]
    /\ source_code_requires' = EmptyDict
    /\ source_code_externals' = EmptyDict
    /\ stack' = <<>>
    /\ visited' = {}
    /\ pc' = "start"
    /\ ret' = [chunks |-> <<>>, import_group |-> <<>>]
    /\ UNCHANGED <<files, shake_tree, strip_docstring, outputs, err>>

\* SourceCode.from_path(a) handed to the pack of the same engine: the third
\* call. pack does not call clear, so the engine's four dicts are as the
\* second call left them.
PackOnUsedEngine ==
    /\ pc = "done" /\ Len(outputs) = 2
    /\ objs' = Append(objs, SourceCode("a", files["a"]))
    /\ in_code' = Len(objs) + 1
    /\ stack' = <<>>
    /\ visited' = {}
    /\ pc' = "start"
    /\ ret' = [chunks |-> <<>>, import_group |-> <<>>]
    /\ UNCHANGED <<files, shake_tree, strip_docstring, source_code_cache, source_code_import_cache,
                   source_code_requires, source_code_externals, outputs, err>>

ReuseNext ==
    \/ Pack
    \/ GatherStep
    \/ GatherReturn
    \/ PackFromRoot
    \/ PackStep
    \/ PackReturn
    \/ Finish
    \/ PackMainFresh
    \/ PackOnUsedEngine

ReuseSpec == ReuseInit /\ [][ReuseNext]_vars

\* Directories in which the file a or the file b cannot be parsed
BrokenPrograms ==
    UNION {{Directory(m, Unparsable, b, TRUE, has_b) : m \in MainBodies, b \in BBodies}
           \cup {Directory(m, a, Unparsable, has_a, TRUE) : m \in MainBodies, a \in ABodies} :
           has_a \in BOOLEAN, has_b \in BOOLEAN}

LoadInit ==
    /\ shake_tree \in BOOLEAN
    /\ strip_docstring = FALSE
    /\ outputs = <<>>
    /\ \E fs \in BrokenPrograms : NewEngine(fs, "main")

\* The command run in the directories above
LoadSpec == LoadInit /\ [][Next]_vars

\* Entry files that hold import statements, none of a file of the directory,
\* and one statement that reads names they bind
MaxImports == 2

ImportStmts ==
    { Imp("os"), ImpAs("os", "o"), Imp("sys"),
      Star("ext"), AstImportFrom("a", <<Alias("*", NoName)>>, 1),
      FromAs("ext", "x", "y"), FromAs("ext", "z", "y"),
      AstImportFrom("ext", <<Alias("x", NoName), Alias("y", "x")>>, 0),
      From("lib", "x") }

ImportBodies ==
    {imports \o <<AstStmt(<<R("os"), R("o"), R("x"), R("y")>>)>> :
        imports \in UNION {[1..n -> ImportStmts] : n \in 0..MaxImports}}

MergeInit ==
    /\ shake_tree \in BOOLEAN
    /\ strip_docstring = FALSE
    /\ outputs = <<>>
    /\ \E m \in ImportBodies : NewEngine(Directory(m, <<>>, <<>>, FALSE, FALSE), "main")

\* The command run on the entry files above
MergeSpec == MergeInit /\ [][Next]_vars

\* Entry files that hold plain imports of every form (a single-segment module,
\* a dotted module, each with and without an alias) and read the names they
\* bind, os.path.join(o, p, f()) reading the root name os; and a module with
\* plain imports that its definitions read
PlainImportStmts ==
    << Imp("os"), ImpAs("os", "o"), Imp("os.path"), ImpAs("os.path", "p"), Imp("sys") >>

\* The statements of the list at the places of S, in the order of the list
RECURSIVE Pick(_, _)
Pick(list, S) ==
    IF list = <<>> THEN <<>>
    ELSE Pick(SubSeq(list, 1, Len(list) - 1), S)
         \o (IF Len(list) \in S THEN <<list[Len(list)]>> ELSE <<>>)

PlainImportBodies ==
    {Pick(PlainImportStmts, S)
         \o <<From("a", "f"), AstStmt(<<R("os"), R("o"), R("p"), R("f")>>)>> :
        S \in SUBSET (1..Len(PlainImportStmts))}

PlainImportModule ==
    <<Imp("os.path"), ImpAs("os", "o"), Imp("sys"),
      Def("f", 4, <<R("os"), R("o")>>), Def("g", 6, <<R("sys")>>)>>

PlainImportInit ==
    /\ shake_tree \in BOOLEAN
    /\ strip_docstring = FALSE
    /\ outputs = <<>>
    /\ \E m \in PlainImportBodies, has_a \in BOOLEAN :
           NewEngine(Directory(m, PlainImportModule, <<>>, has_a, FALSE), "main")

\* The command run on the entry files above
PlainImportSpec == PlainImportInit /\ [][Next]_vars

\* Entry files whose imports are any selection of `from a import f as F`,
\* `from a import g as G`, `from ext import y as z`, `from ext import u as v`
\* and `from a import h`, followed by def m(): F() and the statement
\* m(); z; h(); nothing reads G or v. The module a is
\* from ext import y as w / def f(): w() / def g(): pass / def h(): g()
AliasImportStmts ==
    << FromAs("a", "f", "F"), FromAs("a", "g", "G"), FromAs("ext", "y", "z"),
       FromAs("ext", "u", "v"), From("a", "h") >>

AliasImportBodies ==
    {Pick(AliasImportStmts, S)
         \o <<Def("m", 6, <<R("F")>>), AstStmt(<<R("m"), R("z"), R("h")>>)>> :
        S \in SUBSET (1..Len(AliasImportStmts))}

AliasImportModule ==
    <<FromAs("ext", "y", "w"), Def("f", 2, <<R("w")>>), Def("g", 4, <<>>),
      Def("h", 6, <<R("g")>>)>>

AliasImportInit ==
    /\ shake_tree \in BOOLEAN
    /\ strip_docstring = FALSE
    /\ outputs = <<>>
    /\ \E m \in AliasImportBodies, has_a \in BOOLEAN :
           NewEngine(Directory(m, AliasImportModule, <<>>, has_a, FALSE), "main")

\* The command run on the entry files above
AliasImportSpec == AliasImportInit /\ [][Next]_vars

\* Entry files made of any selection, in this order, of
\*   from ext import *
\*   f(x)
\*   x = 1
\*   def f(p): p; g(); x; t; t = 0; f()
\*   def g(q): (lambda a: a + q + u); u = 0; def k(): q; k(); y
\*   f(); g(); x; p
ScopeStmts ==
    << Star("ext"),
       AstStmt(<<R("f"), R("x")>>),
       AstStmt(<<W("x")>>),
       AstDef("f", {"p"}, <<R("p"), R("g"), R("x"), R("t"), W("t"), R("f")>>, 4, 0),
       AstDef("g", {"q"},
              <<Lambda({"a"}, <<R("a"), R("q"), R("u")>>), W("u"),
                Scope("FunctionDef", "k", {}, <<R("q"), R("k"), R("y")>>)>>, 5, 0),
       AstStmt(<<R("f"), R("g"), R("x"), R("p")>>) >>

ScopeBodies == {Pick(ScopeStmts, S) : S \in SUBSET (1..Len(ScopeStmts))}

ScopeInit ==
    /\ shake_tree \in BOOLEAN
    /\ strip_docstring = FALSE
    /\ outputs = <<>>
    /\ \E m \in ScopeBodies : NewEngine(Directory(m, <<>>, <<>>, FALSE, FALSE), "main")

\* The command run on the entry files above
ScopeSpec == ScopeInit /\ [][Next]_vars

\* Entry files made of any selection, in this order, of
\*   """entry"""
\*   from a import f
\*   def m(): """doc"""; 1; f()
\*   m(); f()
\*   ...
\* beside a module a that is, with or without a docstring of its own,
\*   def f(): """doc"""; ...; g()
\*   def g(): ...
\*   def h(): """doc"""
StripStmts ==
    << AstExpr("str"),
       From("a", "f"),
       AstDef("m", {}, <<C("str"), C("int"), R("f")>>, 3, 0),
       AstStmt(<<R("m"), R("f")>>),
       AstExpr("ellipsis") >>

StripBodies == {Pick(StripStmts, S) : S \in SUBSET (1..Len(StripStmts))}

StripModule ==
    << AstDef("f", {}, <<C("str"), C("ellipsis"), R("g")>>, 2, 0),
       AstDef("g", {}, <<C("ellipsis")>>, 5, 0),
       AstDef("h", {}, <<C("str")>>, 7, 0) >>

StripModules == { StripModule, <<AstExpr("str")>> \o StripModule }

\* The first run of the command, without --strip-docstring
StripInit ==
    /\ shake_tree \in BOOLEAN
    /\ strip_docstring = FALSE
    /\ outputs = <<>>
    /\ \E m \in StripBodies, a \in StripModules, has_a \in BOOLEAN :
           NewEngine(Directory(m, a, <<>>, has_a, FALSE), "main")

\* The command run again on the same entry file with --strip-docstring: a new
\* process, a new Impacker, the entry file loaded anew
RerunStripped ==
    /\ pc = "done" /\ ~strip_docstring
    /\ strip_docstring' = TRUE
    /\ objs' = <<SourceCode(objs[in_code].origin, files[objs[in_code].origin])>>
    /\ in_code' = 1
    /\ source_code_cache' = [x \in {} |-> NoCode]
    /\ source_code_import_cache' = [x \in {} |-> NoCode]
    /\ source_code_requires' = EmptyDict
    /\ source_code_externals' = EmptyDict
    /\ stack' = <<>>
    /\ visited' = {}
    /\ pc' = "start"
    /\ ret' = [chunks |-> <<>>, import_group |-> <<>>]
    /\ UNCHANGED <<files, shake_tree, outputs, err>>

StripNext ==
    \/ Pack
    \/ GatherStep
    \/ GatherReturn
    \/ PackFromRoot
    \/ PackStep
    \/ PackReturn
    \/ Finish
    \/ RerunStripped

\* One entry file packed without and then with --strip-docstring
StripSpec == StripInit /\ [][StripNext]_vars

\* The guards of GatherStep and PackStep: ENABLED <<GatherStep \/ PackStep>>_vars
StepEnabled ==
    /\ stack # <<>>
    /\ \/ pc = "mark" /\ Top.fn = "gather" /\ Top.i >= 1 /\ Top.requires # {}
       \/ pc = "pack" /\ Top.fn = "pack" /\ Top.i <= Len(objs[Top.code].ordered_imports)

\* pack is one synchronous call: once called it runs on until it returns or
\* raises, so each of its steps is weakly fair (for the two loop steps weak
\* fairness is written out, with their guards for ENABLED). Whether the
\* command is run again is up to its user.
FairSpec ==
    /\ Spec
    /\ WF_vars(Pack \/ GatherReturn \/ PackFromRoot \/ PackReturn \/ Finish)
    /\ ([]<>~StepEnabled \/ []<><<GatherStep \/ PackStep>>_vars)

\* The same for the directories in which a file cannot be parsed
FairLoadSpec ==
    /\ LoadSpec
    /\ WF_vars(Pack \/ GatherReturn \/ PackFromRoot \/ PackReturn \/ Finish)
    /\ ([]<>~StepEnabled \/ []<><<GatherStep \/ PackStep>>_vars)

----------------------------------------------------------------------------
(* What the claims speak of *)

Done == pc = "done"

\* The text returned by the last pack call
Out == outputs[Len(outputs)]

Entry == objs[in_code].origin

\* The module models of the files of the directory
Models == [p \in DOMAIN files |-> SourceCode(p, files[p])]

\* The module a chunk comes from
ChunkModule(comment) ==
    IF comment.code_name = MainCodeName THEN Entry ELSE comment.code_name

\* The names of the definitions among statements
DefNames(stmts) ==
    {stmts[i].name : i \in {j \in 1..Len(stmts) : stmts[j].k \in {"FunctionDef", "ClassDef"}}}

\* The chunks of the bundle that define the symbol n of the module p
ChunksDefining(body, p, n) ==
    {i \in 1..Len(body) : ChunkModule(body[i].comment) = p /\ n \in DefNames(body[i].code)}

\* The module an import entry of the module p resolves to, or None
Target(p, imp) ==
    IF imp.t = "ImportModule" THEN None ELSE find_spec_from(files, imp.module, p)

\* The requests that a name n, pending in the module p, makes of other
\* modules: the import entries of p are consulted from the last to the first;
\* a wildcard import of a local module is asked for n, and the walk goes on;
\* a named import of a local module that binds n is asked for the name it
\* exports, and the walk ends.
RECURSIVE Forwarded(_, _, _, _)
Forwarded(p, imports, n, i) ==
    IF i = 0 THEN {}
    ELSE LET imp == imports[i]
             d == Target(p, imp)
         IN IF d # None /\ imp.t = "ImportStarFromModule"
            THEN {<<d, n>>} \cup Forwarded(p, imports, n, i - 1)
            ELSE IF d # None /\ imp.t = "ImportFromModule" /\ imp.alias = n
            THEN {<<d, imp.name>>}
            ELSE Forwarded(p, imports, n, i - 1)

\* The least sets of requests (module, name) and of pending names (module,
\* name) closed under: a requested name that the module defines requests the
\* names its definition depends on; a requested name that the module does not
\* define is pending there; a pending name makes the requests above.
RECURSIVE RequestClosure(_, _, _)
RequestClosure(models, req, pend) ==
    LET req2 == req
                \cup UNION {{<<x[1], d>> : d \in GetSet(models[x[1]].dependency, x[2])} :
                            x \in {y \in req : y[2] \in DOMAIN models[y[1]].global_defines}}
                \cup UNION {Forwarded(x[1], models[x[1]].ordered_imports, x[2],
                                      Len(models[x[1]].ordered_imports)) : x \in pend}
        pend2 == pend \cup {y \in req : y[2] \notin DOMAIN models[y[1]].global_defines}
    IN IF req2 = req /\ pend2 = pend THEN [req |-> req, pend |-> pend]
       ELSE RequestClosure(models, req2, pend2)

\* The symbols (module, name) that the entry module's unresolved globals
\* require transitively
RequiredSymbols ==
    LET models == Models
        c == RequestClosure(models, {},
                 {<<Entry, n>> : n \in models[Entry].unresolved_globals})
    IN {x \in c.req : x[2] \in DOMAIN models[x[1]].global_defines}

----------------------------------------------------------------------------
(* C1 *)

\* C1: with shaking enabled, every symbol that the entry module's unresolved
\* globals require transitively is defined by exactly one chunk of the
\* bundle, and no symbol of any module is defined by two chunks.
C1_RequiredOnce ==
    (Done /\ shake_tree) =>
        /\ \A x \in RequiredSymbols :
               Cardinality(ChunksDefining(Out.import_body, x[1], x[2])) = 1
        /\ \A p \in DOMAIN files : \A n \in DOMAIN Models[p].global_defines :
               Cardinality(ChunksDefining(Out.import_body, p, n)) <= 1

\* A bundle with a symbol required through a wildcard import and one
\* required only through a dependency edge of another module's definition
C1_Witness ==
    /\ Done /\ shake_tree /\ Len(outputs) = 1
    /\ \E x \in RequiredSymbols :
         /\ x[1] # Entry
         /\ \E y \in RequiredSymbols :
              /\ y[1] = x[1] /\ y[2] # x[2]
              /\ x[2] \in GetSet(Models[y[1]].dependency, y[2])
    /\ \E p \in DOMAIN files : \E i \in 1..Len(Models[p].ordered_imports) :
         /\ Models[p].ordered_imports[i].t = "ImportStarFromModule"
         /\ \E x \in RequiredSymbols : x[1] = Target(p, Models[p].ordered_imports[i])

----------------------------------------------------------------------------
(* C2 *)

\* The symbols (module, name) that the chunks of the bundle define
EmittedSymbols(body) ==
    UNION {{<<ChunkModule(body[i].comment), n>> : n \in DefNames(body[i].code)} :
           i \in 1..Len(body)}

\* C2 as stated: with shaking enabled, a top-level symbol of any module that
\* the entry module's unresolved globals do not require transitively is not
\* emitted.
C2_AsStated ==
    (Done /\ shake_tree) => EmittedSymbols(Out.import_body) \subseteq RequiredSymbols

\* C2: with shaking enabled, a top-level symbol of any module other than the
\* entry module that the entry module's unresolved globals do not require
\* transitively is not emitted.
C2_DeadCodeElimination ==
    (Done /\ shake_tree) =>
        \A x \in EmittedSymbols(Out.import_body) :
            x[1] # Entry => x \in RequiredSymbols

\* A bundle of a module that defines a symbol nothing requires, next to
\* symbols that are required and emitted
C2_Witness ==
    /\ Done /\ shake_tree /\ Len(outputs) = 1
    /\ \E p \in DOMAIN files \ {Entry} :
         /\ \E n \in DOMAIN Models[p].global_defines : <<p, n>> \notin RequiredSymbols
         /\ \E n \in DOMAIN Models[p].global_defines :
                <<p, n>> \in EmittedSymbols(Out.import_body)

----------------------------------------------------------------------------
(* C3 *)

\* The modules that the import entries of the module p resolve to
ImportsOf(p) ==
    {Target(p, imp) : imp \in Range(Models[p].ordered_imports)} \ {None}

\* The modules reached from the modules of S along resolved import entries
RECURSIVE ReachFrom(_)
ReachFrom(S) ==
    LET T == S \cup UNION {ImportsOf(p) : p \in S}
    IN IF T = S THEN S ELSE ReachFrom(T)

\* The modules of the program: the entry module and those it reaches
ReachableModules == ReachFrom({Entry})

\* p and d import each other, directly or through a chain
InCycle(p, d) ==
    /\ p # d
    /\ d \in ReachFrom(ImportsOf(p))
    /\ p \in ReachFrom(ImportsOf(d))

HasImportCycle == \E p, d \in ReachableModules : InCycle(p, d)

Count(seq, x) == Cardinality({i \in 1..Len(seq) : seq[i] = x})

\* The statements of the bundle that come from the module p
BundleStmts(body, p) ==
    LET FromP(c) == ChunkModule(c.comment) = p
        sel == SelectSeq(body, FromP)
    IN Flatten([i \in 1..Len(sel) |-> sel[i].code])

\* The statements of the module p other than its import statements
OwnStmts(p) == {s \in Range(files[p]) : s.k \notin {"Import", "ImportFrom"}}

\* Each statement of each module stands in the bundle as often as in the
\* module when the module is emitted whole or the statement defines a required
\* symbol, and never more often.
StatementsOnce ==
    \A p \in ReachableModules : \A s \in OwnStmts(p) :
        LET n == Count(BundleStmts(Out.import_body, p), Unparse(s))
        IN /\ n <= Count(files[p], s)
           /\ (\/ p = Entry
               \/ ~shake_tree
               \/ (s.k \in {"FunctionDef", "ClassDef"} /\ <<p, s.name>> \in RequiredSymbols))
              => n = Count(files[p], s)

\* C3: for a program whose modules import each other, directly or through a
\* chain, requirement propagation ends, assembly ends, and in the bundle
\* returned no statement of a module is repeated: every statement emitted is
\* there exactly once.
C3_CyclesTerminate ==
    /\ (HasImportCycle /\ pc = "mark") ~> (pc = "pack")
    /\ (HasImportCycle /\ pc \in {"start", "pack"}) ~> Done
    /\ [](HasImportCycle /\ Done => StatementsOnce)

\* A bundle of a program in which the entry module and another module import
\* each other, and a third module is on a cycle too, all three emitted
C3_Witness ==
    /\ Done /\ Len(outputs) = 1
    /\ \E d \in ReachableModules : InCycle(Entry, d)
    /\ \E p, d \in ReachableModules \ {Entry} : InCycle(p, d)
    /\ \A p \in ReachableModules : BundleStmts(Out.import_body, p) # <<>>

----------------------------------------------------------------------------
(* C4 *)

\* The places in the chunk list of the chunks of the module p
ChunksOf(chunks, p) == {i \in 1..Len(chunks) : ChunkModule(chunks[i].comment) = p}

\* All chunks of the module D precede all chunks of the module M
Precede(chunks, D, M) ==
    \A i \in ChunksOf(chunks, D) : \A j \in ChunksOf(chunks, M) : i < j

\* C4 as stated: in the assembled chunk list, for every pair of modules M and
\* D where M has a named or wildcard import that resolves to D, all chunks of
\* D precede all chunks of M.
C4_AsStated ==
    Done => \A M, D \in DOMAIN files : D \in ImportsOf(M) => Precede(ret.chunks, D, M)

\* C4: in the assembled chunk list, for every pair of modules M and D where M
\* has a named or wildcard import that resolves to D and D does not import M
\* back, directly or through a chain, all chunks of D precede all chunks of M.
C4_DependencyFirst ==
    Done => \A M, D \in DOMAIN files :
                (D \in ImportsOf(M) /\ M \notin ReachFrom(ImportsOf(D)))
                    => Precede(ret.chunks, D, M)

\* A chunk list with the chunks of two modules other than the entry module,
\* one importing the other and not imported back, the imported one with two
\* chunks or more
C4_Witness ==
    /\ Done /\ Len(outputs) = 1
    /\ \E M, D \in DOMAIN files \ {Entry} :
         /\ D \in ImportsOf(M) /\ M \notin ReachFrom(ImportsOf(D))
         /\ Cardinality(ChunksOf(ret.chunks, D)) >= 2
         /\ ChunksOf(ret.chunks, M) # {}

----------------------------------------------------------------------------
(* C5 *)

\* The symbols of the module p that the entry module requires
RequiredOf(p) == {x[2] : x \in {y \in RequiredSymbols : y[1] = p}}

\* The chunk holds one statement, the definition of a symbol of the module p,
\* as it stands in the file
DefinitionChunk(c, p) ==
    /\ Len(c.chunk) = 1
    /\ c.chunk[1].k \in {"FunctionDef", "ClassDef"}
    /\ c.chunk[1] \in Range(files[p])

\* C5: with shaking enabled, the chunks of a module other than the entry
\* module are one chunk per required symbol, each holding the definition of
\* its symbol, in the order of the positions (line, then column) of the
\* definitions in the file, in whatever order the required set is iterated.
C5_RequiredChunksInSourceOrder ==
    (Done /\ shake_tree) =>
        \A p \in DOMAIN files \ {Entry} :
            LET at == ChunksOf(ret.chunks, p)
            IN /\ \A i \in at : DefinitionChunk(ret.chunks[i], p)
               /\ {ret.chunks[i].chunk[1].name : i \in at} = RequiredOf(p)
               /\ \A i, j \in at :
                      i < j => PosLess(ret.chunks[i].chunk[1], ret.chunks[j].chunk[1])

\* A module other than the entry module with two chunks, the first one of a
\* symbol that is required only because the second one depends on it
C5_Witness ==
    /\ Done /\ shake_tree /\ Len(outputs) = 1
    /\ \E p \in DOMAIN files \ {Entry} : \E i, j \in ChunksOf(ret.chunks, p) :
         /\ i < j
         /\ ret.chunks[i].chunk[1].name
                \in GetSet(Models[p].dependency, ret.chunks[j].chunk[1].name)
         /\ ret.chunks[i].chunk[1].name \notin Models[Entry].unresolved_globals

----------------------------------------------------------------------------
(* C6 *)

\* The depth-first walk of the module graph from the import entry i of the
\* module p on: a module is walked when the first import entry that resolves
\* to it is met, its import entries in declaration order; `out` lists the
\* modules in the order in which their walks end, `imports` the import
\* entries that resolve to no module in the order in which they are met.
RECURSIVE Walk(_, _, _)
Walk(p, i, st) ==
    IF i > Len(Models[p].ordered_imports) \/ st.seen = {}
    THEN [st EXCEPT !.out = Append(@, p)]
    ELSE LET imp == Models[p].ordered_imports[i]
             d == Target(p, imp)
         IN IF d = None THEN Walk(p, i + 1, [st EXCEPT !.imports = Append(@, imp)])
            ELSE IF d \in st.seen THEN Walk(p, i + 1, st)
            ELSE Walk(p, i + 1, Walk(d, 1, [st EXCEPT !.seen = @ \cup {d}]))

WalkFromEntry == Walk(Entry, 1, [out |-> <<>>, imports |-> <<>>, seen |-> {Entry}])

\* The statements of a body other than its import statements, as they stand
PlainStatements(body) ==
    LET NotImport(stmt) == stmt.k \notin {"Import", "ImportFrom"}
    IN SelectSeq(body, NotImport)

\* The statements of a body with its import statements taken out, each name
\* imported under an alias leaving the assignment `alias = name` in the place
\* of its import statement
Bound(a) == a.asname # NoName

KeptStatements(body) ==
    Flatten([i \in 1..Len(body) |->
        IF body[i].k = "Import" THEN <<>>
        ELSE IF body[i].k = "ImportFrom"
        THEN LET bound == SelectSeq(body[i].names, Bound)
             IN [j \in 1..Len(bound) |-> AstAssign(bound[j].asname, bound[j].name)]
        ELSE <<body[i]>>])

TextOf(stmts) == [i \in 1..Len(stmts) |-> Unparse(stmts[i])]

\* The chunks of the modules of `order` that have statements to give, each
\* module one chunk
WholeChunks(order) ==
    LET HasStatements(c) == c.code # <<>>
    IN SelectSeq([i \in 1..Len(order) |->
                     [module |-> order[i],
                      code |-> TextOf(KeptStatements(files[order[i]]))]],
                 HasStatements)

\* The chunks of the bundle, each with the module it comes from
BundleChunks ==
    [i \in 1..Len(Out.import_body) |->
        [module |-> ChunkModule(Out.import_body[i].comment),
         code |-> Out.import_body[i].code]]

\* The header is the merge of the import entries met by the walk
MergedHeader(imports) ==
    IF imports = <<>> THEN Out.import_header = <<>>
    ELSE \E order \in Orders(PlainPairs(imports)) :
             Out.import_header = TextOf(to_asts(imports, order))

\* C6 as stated: with shaking disabled, the bundle is one merged import header
\* followed by the bodies of the reachable modules in dependency order, each
\* module giving exactly one chunk that holds its statements unmodified.
C6_AsStated ==
    (Done /\ ~shake_tree) =>
        /\ MergedHeader(WalkFromEntry.imports)
        /\ BundleChunks =
               [i \in 1..Len(WalkFromEntry.out) |->
                   [module |-> WalkFromEntry.out[i],
                    code |-> TextOf(PlainStatements(files[WalkFromEntry.out[i]]))]]

\* C6: with shaking disabled, the bundle is one merged import header followed
\* by the chunks of the reachable modules in dependency order, a module giving
\* one chunk that holds its statements with the import statements taken out
\* and an assignment `alias = name` for each name imported under an alias, and
\* no chunk when that leaves nothing; the bundle is determined by the files.
C6_WholeProgram ==
    (Done /\ ~shake_tree) =>
        /\ MergedHeader(WalkFromEntry.imports)
        /\ BundleChunks = WholeChunks(WalkFromEntry.out)
        /\ \A id \in DOMAIN source_code_requires : source_code_requires[id] = {}

\* A bundle made without shaking of three modules, one of them with nothing
\* but import statements, one with a name imported under an alias
C6_Witness ==
    /\ Done /\ ~shake_tree /\ Len(outputs) = 1
    /\ Len(WalkFromEntry.out) = 3
    /\ \E p \in ReachableModules : KeptStatements(files[p]) = <<>>
    /\ \E p \in ReachableModules :
           KeptStatements(files[p]) # PlainStatements(files[p])
    /\ Out.import_header # <<>>

----------------------------------------------------------------------------
(* C7 *)

\* The statements of the chunks of a text that pack returned
StatementsOf(text) ==
    Flatten([i \in 1..Len(text.import_body) |-> text.import_body[i].code])

\* The bindings made by the import statements of a header: for each name
\* imported, the kind of statement, the module, the name and the alias
BindingsOf(header) ==
    UNION {{<<header[i].k, header[i].level, header[i].module,
              header[i].names[j].name, AsnameOrName(header[i].names[j])>> :
                j \in 1..Len(header[i].names)} : i \in 1..Len(header)}

\* C7: packing the text that pack returned, as an entry file with no local
\* module to import, returns the same statements and the same set of import
\* bindings.
C7_RepackFixedPoint ==
    (Done /\ Len(outputs) = 2) =>
        /\ StatementsOf(outputs[2]) = StatementsOf(outputs[1])
        /\ BindingsOf(outputs[2].import_header) = BindingsOf(outputs[1].import_header)

----------------------------------------------------------------------------
(* C8 *)

\* The module named by an import statement, with the dots of its level
HeaderModule(stmt) == JoinModuleName(stmt.level, stmt.module)

IsStar(stmt) == stmt.k = "ImportFrom" /\ stmt.names = <<Alias("*", NoName)>>

IsNamed(stmt) ==
    stmt.k = "ImportFrom" /\ \A j \in 1..Len(stmt.names) : stmt.names[j].name # "*"

\* The places in the header of the plain import statements, of the wildcard
\* import statements and of the named import statements
PlainAt(header) == {i \in 1..Len(header) : header[i].k = "Import"}
StarAt(header) == {i \in 1..Len(header) : IsStar(header[i])}
NamedAt(header) == {i \in 1..Len(header) : IsNamed(header[i])}

ModulesOf(group, t) == {e.module : e \in {x \in Range(group) : x.t = t}}

\* The exported name of the first entry of the group that imports from the
\* module under the alias
FirstSeenName(group, module, alias) ==
    LET at == {i \in 1..Len(group) :
                  /\ group[i].t = "ImportFromModule"
                  /\ group[i].module = module /\ group[i].alias = alias}
    IN group[CHOOSE i \in at : \A j \in at : i <= j].name

PlainMerged(group, header) ==
    LET at == PlainAt(header)
    IN /\ Cardinality(at) = IF PlainPairs(group) = {} THEN 0 ELSE 1
       /\ \A i \in at :
            /\ Len(header[i].names) = Cardinality(PlainPairs(group))
            /\ {<<a.name, AsnameOrName(a)>> : a \in Range(header[i].names)}
                   = PlainPairs(group)

StarsMerged(group, header) ==
    /\ \A m \in ModulesOf(group, "ImportStarFromModule") :
           Cardinality({i \in StarAt(header) : HeaderModule(header[i]) = m}) = 1
    /\ \A i \in StarAt(header) :
           HeaderModule(header[i]) \in ModulesOf(group, "ImportStarFromModule")

NamedMerged(group, header) ==
    /\ \A m \in ModulesOf(group, "ImportFromModule") :
           LET at == {i \in NamedAt(header) : HeaderModule(header[i]) = m}
               aliases == {e.alias : e \in {x \in Range(group) :
                               x.t = "ImportFromModule" /\ x.module = m}}
           IN /\ Cardinality(at) = 1
              /\ \A i \in at :
                   /\ Len(header[i].names) = Cardinality(aliases)
                   /\ {AsnameOrName(a) : a \in Range(header[i].names)} = aliases
                   /\ \A a \in Range(header[i].names) :
                          a.name = FirstSeenName(group, m, AsnameOrName(a))
    /\ \A i \in NamedAt(header) :
           HeaderModule(header[i]) \in ModulesOf(group, "ImportFromModule")

\* C8: in the header made of an import group, the plain imports form at most
\* one statement that holds each distinct (module, alias) pair once; each
\* module imported with a wildcard has exactly one statement; each module that
\* names are imported from has exactly one statement, which holds each alias
\* once, with the exported name of the first entry seen for that alias; and
\* the header holds no other statement.
C8_ImportsMerged ==
    Done =>
        /\ PlainMerged(ret.import_group, Out.import_header)
        /\ StarsMerged(ret.import_group, Out.import_header)
        /\ NamedMerged(ret.import_group, Out.import_header)
        /\ \A i \in 1..Len(Out.import_header) :
               \/ Out.import_header[i].k = "Import"
               \/ IsStar(Out.import_header[i])
               \/ IsNamed(Out.import_header[i])

\* A header made of a group in which two entries import different names from
\* one module under one alias
C8_Witness ==
    /\ Done /\ Len(outputs) = 1
    /\ \E i, j \in 1..Len(ret.import_group) :
         /\ i < j
         /\ ret.import_group[i].t = "ImportFromModule"
         /\ ret.import_group[j].t = "ImportFromModule"
         /\ ret.import_group[i].module = ret.import_group[j].module
         /\ ret.import_group[i].alias = ret.import_group[j].alias
         /\ ret.import_group[i].name # ret.import_group[j].name

----------------------------------------------------------------------------
(* C9 *)

\* A body without import statements and without definitions
NoImportsNoDefinitions(body) ==
    \A i \in 1..Len(body) : body[i].k = "Stmt"

\* The reads and writes of a sequence of events as module scope sees them: a
\* lambda stands for the reads of its body that its parameters do not bind
RECURSIVE ModuleEvents(_, _)
ModuleEvents(evs, bound) ==
    IF evs = <<>> THEN <<>>
    ELSE LET e == Head(evs)
         IN (IF e[1] = "S" THEN ModuleEvents(e[5], bound \cup e[4])
             ELSE IF e[1] = "R" /\ e[2] \in bound THEN <<>>
             ELSE <<e>>)
            \o ModuleEvents(Tail(evs), bound)

EventsOf(body) == ModuleEvents(Flatten([i \in 1..Len(body) |-> body[i].ev]), {})

\* The names read at module scope, those written there, and those read there
\* before any write of them
NamesRead(evs) == {evs[i][2] : i \in {j \in 1..Len(evs) : evs[j][1] = "R"}}

NamesWritten(evs) == {evs[i][2] : i \in {j \in 1..Len(evs) : evs[j][1] = "W"}}

NamesReadFirst(evs) ==
    {evs[i][2] : i \in {j \in 1..Len(evs) :
                            /\ evs[j][1] = "R"
                            /\ \A k \in 1..(j - 1) : evs[k] # W(evs[j][2])}}

\* C9 as stated: the model of a module without imports and without top-level
\* definitions has no import, no definition, the names read at module scope
\* and not defined there as unresolved globals, and a dependency map with the
\* module-level key alone, whose value is that set.
C9_AsStated ==
    \A id \in 1..Len(objs) :
        NoImportsNoDefinitions(objs[id].body) =>
            LET evs == EventsOf(objs[id].body)
                unresolved == NamesRead(evs) \ NamesWritten(evs)
            IN /\ objs[id].ordered_imports = <<>>
               /\ DOMAIN objs[id].global_defines = {}
               /\ objs[id].unresolved_globals = unresolved
               /\ DOMAIN objs[id].dependency = {ModuleKey}
               /\ objs[id].dependency[ModuleKey] = unresolved

\* C9: the model of a module without imports and without top-level
\* definitions has no import, no definition, as unresolved globals the names
\* read at module scope before any assignment to them there, and a dependency
\* map that is empty when the module reads no name and otherwise has the
\* module-level key alone, whose value is the set of all names read at module
\* scope, assigned there or not.
C9_PlainModuleModel ==
    \A id \in 1..Len(objs) :
        NoImportsNoDefinitions(objs[id].body) =>
            LET evs == EventsOf(objs[id].body)
            IN /\ objs[id].ordered_imports = <<>>
               /\ DOMAIN objs[id].global_defines = {}
               /\ objs[id].unresolved_globals = NamesReadFirst(evs)
               /\ DOMAIN objs[id].dependency =
                      IF NamesRead(evs) = {} THEN {} ELSE {ModuleKey}
               /\ \A key \in DOMAIN objs[id].dependency :
                      objs[id].dependency[key] = NamesRead(evs)

\* The model of a module without imports and definitions that reads a name it
\* has assigned and a name it has not
C9_Witness ==
    \E id \in 1..Len(objs) :
        /\ NoImportsNoDefinitions(objs[id].body)
        /\ objs[id].body # <<>>
        /\ objs[id].unresolved_globals # {}
        /\ ModuleKey \in DOMAIN objs[id].dependency
        /\ objs[id].dependency[ModuleKey] # objs[id].unresolved_globals

----------------------------------------------------------------------------
(* C10 *)

\* The import entries of the modules of the program that name no file
UnresolvedEntries ==
    {pe \in UNION {{<<p, imp>> : imp \in Range(Models[p].ordered_imports)} :
                       p \in ReachableModules} :
        find_spec_from(files, pe[2].module, pe[1]) = None}

\* The file an import entry would name
TargetName(imp) == split_module_name(imp.module)[2]

\* The header holds the import entry as it was written
InHeader(imp, header) ==
    \E i \in 1..Len(header) :
        IF imp.t = "ImportModule"
        THEN /\ i \in PlainAt(header)
             /\ \E a \in Range(header[i].names) :
                    a.name = imp.module /\ AsnameOrName(a) = imp.alias
        ELSE IF imp.t = "ImportStarFromModule"
        THEN i \in StarAt(header) /\ HeaderModule(header[i]) = imp.module
        ELSE /\ i \in NamedAt(header)
             /\ HeaderModule(header[i]) = imp.module
             /\ \E a \in Range(header[i].names) :
                    a.name = imp.name /\ AsnameOrName(a) = imp.alias

\* The header holds the import entry after merging: a named import stands
\* under its alias with the exported name of the first entry that the walk met
\* for that module and alias
InHeaderMerged(imp, group, header) ==
    IF imp.t = "ImportFromModule"
    THEN \E i \in NamedAt(header) :
            /\ HeaderModule(header[i]) = imp.module
            /\ \E a \in Range(header[i].names) :
                   /\ AsnameOrName(a) = imp.alias
                   /\ a.name = FirstSeenName(group, imp.module, imp.alias)
    ELSE InHeader(imp, header)

\* C10 as stated: for every import entry whose target is not found, bundling
\* raises no error, no chunk comes from that target, and with shaking disabled
\* the entry appears in the merged import header.
C10_AsStated ==
    /\ UnresolvedEntries # {} => pc # "failed" /\ err = NoError
    /\ Done =>
         \A pe \in UnresolvedEntries :
            /\ \A i \in 1..Len(Out.import_body) :
                   ChunkModule(Out.import_body[i].comment) # TargetName(pe[2])
            /\ ~shake_tree => InHeader(pe[2], Out.import_header)

\* C10: for every import entry whose target is not found, bundling raises no
\* error, no chunk comes from that target, and with shaking disabled the entry
\* is kept by the walk and appears in the merged import header, except that a
\* named import whose module and alias an entry met earlier has bound to
\* another name is merged into that entry: the header holds the alias once,
\* with the earlier entry's exported name.
C10_UnresolvedImportsKept ==
    /\ UnresolvedEntries # {} => pc # "failed" /\ err = NoError
    /\ Done =>
         \A pe \in UnresolvedEntries :
            /\ \A i \in 1..Len(Out.import_body) :
                   ChunkModule(Out.import_body[i].comment) # TargetName(pe[2])
            /\ ~shake_tree =>
                   /\ pe[2] \in Range(ret.import_group)
                   /\ InHeaderMerged(pe[2], ret.import_group, Out.import_header)

\* A bundle made with shaking disabled of a program in which an imported
\* module has a wildcard import and a named import that are not found, or in
\* which two named imports that are not found bind one alias of one module to
\* different names
C10_Witness ==
    /\ Done /\ ~shake_tree /\ Len(outputs) = 1
    /\ \/ \E pe, qe \in UnresolvedEntries :
            /\ pe[1] # Entry /\ pe[2].t = "ImportStarFromModule"
            /\ qe[2].t = "ImportFromModule"
            /\ InHeader(pe[2], Out.import_header)
            /\ InHeader(qe[2], Out.import_header)
       \/ \E pe \in UnresolvedEntries :
            /\ pe[2].t = "ImportFromModule"
            /\ ~InHeader(pe[2], Out.import_header)

----------------------------------------------------------------------------
(* C11 *)

\* A module of the program is a file that cannot be loaded
BrokenReachable == \E q \in ReachableModules : files[q] = Unparsable

\* C11: when a module that the run reaches through resolved imports cannot be
\* loaded, pack returns no text and makes no bundle, it ends with the error of
\* the load, and it raises no such error otherwise.
C11_LoadFailureIsFatal ==
    /\ [](BrokenReachable => pc \notin {"header", "done"} /\ outputs = <<>>)
    /\ [](pc = "failed" => err = "SyntaxError" /\ BrokenReachable)
    /\ (BrokenReachable /\ pc = "start") ~> (pc = "failed" /\ err = "SyntaxError")

\* pack has failed on a file that the entry module does not import itself,
\* after it loaded another module
C11_Witness ==
    /\ pc = "failed" /\ err = "SyntaxError"
    /\ Len(objs) >= 2
    /\ \A q \in ImportsOf(Entry) : files[q] # Unparsable

----------------------------------------------------------------------------
(* C12 *)

\* C12: two independent runs on the same entry module and the same module
\* files return the same text, the order of the names in the merged import
\* header and the order of the chunks included.
C12_Deterministic ==
    \A i, j \in 1..Len(outputs) : outputs[i] = outputs[j]

----------------------------------------------------------------------------
(* C13 *)

\* The text of a bundle with the names of its plain import statement as a set
SameBundle(t, u) ==
    /\ t.import_body = u.import_body
    /\ Len(t.import_header) = Len(u.import_header)
    /\ \A i \in 1..Len(t.import_header) :
         IF t.import_header[i].k = "Import"
         THEN /\ u.import_header[i].k = "Import"
              /\ Range(t.import_header[i].names) = Range(u.import_header[i].names)
         ELSE t.import_header[i] = u.import_header[i]

\* C13: when pack returns, the module cache, the import-resolution cache and
\* the required and external records are empty, and the bundle that an engine
\* makes of an entry module after it packed another one is the bundle that a
\* new engine makes of it.
C13_NoStateAcrossPacks ==
    /\ Done =>
         /\ DOMAIN source_code_cache = {}
         /\ DOMAIN source_code_import_cache = {}
         /\ DOMAIN source_code_requires = {}
         /\ DOMAIN source_code_externals = {}
    /\ Len(outputs) = 3 => SameBundle(outputs[3], outputs[1])

----------------------------------------------------------------------------
(* C14 *)

\* The requests that get_import has answered: <<id of the importing module,
\* import name>>
Requests == DOMAIN source_code_import_cache

\* C14: within one run no file is loaded twice, the module cache maps the path
\* of every module it holds to the one object loaded from it, the entry
\* module included once pack has registered it, and every import request that
\* resolves to a path is answered with the object the cache holds for that
\* path, whatever the import name and the importing module.
C14_OneInstancePerFile ==
    /\ \A i, j \in 1..Len(objs) : objs[i].origin = objs[j].origin => i = j
    /\ \A path \in DOMAIN source_code_cache :
           objs[source_code_cache[path]].origin = path
    /\ pc # "start" => \A i \in 1..Len(objs) : objs[i].origin \in DOMAIN source_code_cache
    /\ \A rq \in Requests :
           LET path == find_spec_from(files, rq[2], objs[rq[1]].origin)
           IN IF path = None THEN source_code_import_cache[rq] = NoCode
              ELSE /\ path \in DOMAIN source_code_cache
                   /\ source_code_import_cache[rq] = source_code_cache[path]

\* One module was requested under two import names by two modules
C14_Witness ==
    \E rq, rr \in Requests :
        /\ rq[1] # rr[1] /\ rq[2] # rr[2]
        /\ source_code_import_cache[rq] = source_code_import_cache[rr]
        /\ source_code_import_cache[rq] # NoCode

----------------------------------------------------------------------------
(* C15 *)

\* The required set and the external set of the module `id`, empty while the
\* module has no record
RequiredSet(req_map, id) == GetSet(req_map, id)
ExternalSet(ext_map, id) == GetSet(ext_map, id)

\* C15: no step of a run removes a name from the required set or from the
\* external set of a module, and no step of the assembly changes either set
\* of any module.
C15_RecordsOnlyGrow ==
    [][pc # "done" =>
          \A id \in 1..Len(objs) :
             /\ RequiredSet(source_code_requires, id)
                    \subseteq RequiredSet(source_code_requires', id)
             /\ ExternalSet(source_code_externals, id)
                    \subseteq ExternalSet(source_code_externals', id)
             /\ pc \in {"pack", "header"} =>
                    /\ RequiredSet(source_code_requires', id)
                           = RequiredSet(source_code_requires, id)
                    /\ ExternalSet(source_code_externals', id)
                           = ExternalSet(source_code_externals, id)]_vars

\* The assembly of a shaken program is over: a module other than the entry
\* has required names and external names, and another module was loaded by
\* the assembly without any name requested of it
C15_Witness ==
    /\ pc = "header" /\ shake_tree
    /\ \E id \in 1..Len(objs) :
         /\ id # in_code
         /\ RequiredSet(source_code_requires, id) # {}
         /\ ExternalSet(source_code_externals, id) # {}
    /\ \E id \in 1..Len(objs) :
         /\ id \notin DOMAIN source_code_externals
         /\ RequiredSet(source_code_requires, id) = {}

----------------------------------------------------------------------------
(* C16 *)

\* The place of the last import entry of the module `id` that binds the alias
\* n, when that entry is a named import; 0 otherwise
ShadowingNamed(id, n) ==
    LET imports == objs[id].ordered_imports
        binding == {k \in 1..Len(imports) :
                       imports[k].t \in {"ImportModule", "ImportFromModule"}
                       /\ imports[k].alias = n}
    IN IF binding = {} THEN 0
       ELSE LET last == CHOOSE k \in binding : \A j \in binding : j <= k
            IN IF imports[last].t = "ImportFromModule" THEN last ELSE 0

\* The import entry at place k of the module `id` names a file
ResolvesAt(id, k) ==
    find_spec_from(files, objs[id].ordered_imports[k].module, objs[id].origin) # None

\* The frames of _gather_source_code_requires_from_imports on the stack; the
\* entries at the places above fr.i have been consulted
GatherFrames == {f \in 1..Len(stack) : stack[f].fn = "gather"}

\* C16: a name that is pending in a module, and that a named import is the
\* last entry of the module to bind, is pending no more once that entry has
\* been consulted, so it is handed to no earlier named or wildcard import.
C16_AsStated ==
    \A f \in GatherFrames : \A n \in stack[f].requires :
        ShadowingNamed(stack[f].code, n) > 0 =>
            stack[f].i >= ShadowingNamed(stack[f].code, n)

\* The names pending in a frame respect the shadowing of the named imports
\* that resolve
ShadowingRespected ==
    \A f \in GatherFrames : \A n \in stack[f].requires :
        LET k == ShadowingNamed(stack[f].code, n)
        IN (k > 0 /\ ResolvesAt(stack[f].code, k)) => stack[f].i >= k

\* The step that consults, for a pending name, the named import that is the
\* last entry to bind it, when the import resolves: the exported name is
\* asked of the target module, which marks it required if it defines it and
\* external if not, and the alias leaves the pending names of the frame.
ShadowingStep ==
    (pc = "mark" /\ stack # <<>> /\ Top.fn = "gather" /\ Top.i >= 1) =>
        \A n \in Top.requires :
            (ShadowingNamed(Top.code, n) = Top.i /\ ResolvesAt(Top.code, Top.i)) =>
                LET imp == objs[Top.code].ordered_imports[Top.i]
                    target == source_code_cache'[
                                  find_spec_from(files, imp.module, objs[Top.code].origin)]
                IN /\ IF imp.name \in DOMAIN objs'[target].global_defines
                      THEN imp.name \in GetSet(source_code_requires', target)
                      ELSE imp.name \in GetSet(source_code_externals', target)
                   /\ stack'[Len(stack)].code = Top.code
                   /\ stack'[Len(stack)].i = Top.i - 1
                   /\ stack'[Len(stack)].requires = Top.requires \ {n}

\* What the code keeps of C16: the imports of a module are consulted from the
\* last to the first; if the last import entry that binds the alias n is a
\* named import whose target resolves to a local module, a pending name n is
\* resolved through that entry (the exported name becomes required in the
\* target) and removed from the pending names, so no earlier named or
\* wildcard import receives n.
C16_ReverseOrderShadowing ==
    /\ []ShadowingRespected
    /\ [][ShadowingStep]_vars

\* A named import that resolves has taken a pending name away before an
\* earlier wildcard import of the module was consulted
C16_Witness ==
    \E f \in GatherFrames :
        \E n \in GetSet(source_code_externals, stack[f].code) \ stack[f].requires :
            LET k == ShadowingNamed(stack[f].code, n)
            IN /\ k > stack[f].i /\ ResolvesAt(stack[f].code, k)
               /\ \E j \in 1..(k - 1) :
                      objs[stack[f].code].ordered_imports[j].t = "ImportStarFromModule"

----------------------------------------------------------------------------
(* C17 *)

\* The names that the definitions of the names of S need inside the module
\* `code`: S and, for every name the module defines, the names its definition
\* reads, again and again
RECURSIVE DependencyClosure(_, _)
DependencyClosure(code, S) ==
    LET T == S \cup UNION {GetSet(code.dependency, n) :
                              n \in S \cap DOMAIN code.global_defines}
    IN IF T = S THEN S ELSE DependencyClosure(code, T)

\* The step that consults a wildcard import whose target is a local module
\* hands every pending name to the target: those the target defines are
\* required there after the step, with every definition of the target that
\* they need, and those it does not define are in its external set.
WildcardStep ==
    (pc = "mark" /\ stack # <<>> /\ Top.fn = "gather" /\ Top.i >= 1
       /\ Top.requires # {}
       /\ objs[Top.code].ordered_imports[Top.i].t = "ImportStarFromModule"
       /\ ResolvesAt(Top.code, Top.i)) =>
        LET imp == objs[Top.code].ordered_imports[Top.i]
            target == source_code_cache'[
                          find_spec_from(files, imp.module, objs[Top.code].origin)]
            code == objs'[target]
            forwarded == Top.requires
            defined == DOMAIN code.global_defines
        IN /\ DependencyClosure(code, forwarded \cap defined) \cap defined
                  \subseteq GetSet(source_code_requires', target)
           /\ forwarded \ defined \subseteq GetSet(source_code_externals', target)
           /\ stack'[Len(stack)].requires = forwarded

\* C17: when propagation reaches a wildcard import whose target resolves to a
\* local module, every name still pending is forwarded to the target, and
\* each forwarded name that the target defines becomes required there
\* together with the definitions of the target that it depends on.
C17_WildcardForwardsPending ==
    [][WildcardStep]_vars

\* A wildcard import of a local module has been consulted with two names
\* pending: the target defines one and not the other, and a definition that
\* was not pending is required in the target through a dependency
C17_Witness ==
    \E f \in GatherFrames :
        LET id == stack[f].code
            k == stack[f].i + 1
        IN /\ k <= Len(objs[id].ordered_imports)
           /\ objs[id].ordered_imports[k].t = "ImportStarFromModule"
           /\ ResolvesAt(id, k)
           /\ LET target == source_code_cache[
                      find_spec_from(files, objs[id].ordered_imports[k].module,
                                     objs[id].origin)]
                  required == GetSet(source_code_requires, target)
              IN /\ stack[f].requires \cap required # {}
                 /\ stack[f].requires \ DOMAIN objs[target].global_defines # {}
                 /\ required \ stack[f].requires # {}

----------------------------------------------------------------------------
(* C18 *)

\* The names requested of the module p that it does not define: the unresolved
\* globals of the entry module, the names that imports of other modules ask
\* of p, and the names that the definitions required of p read
RequestedUndefined(p) ==
    LET models == Models
        c == RequestClosure(models, {},
                 {<<Entry, n>> : n \in models[Entry].unresolved_globals})
    IN {x[2] : x \in {y \in c.pend : y[1] = p}}

\* The name n is resolved by a named import of the module `id`: an entry that
\* binds n and whose target is a local module
ResolvedByNamedImport(id, n) ==
    \E k \in 1..Len(objs[id].ordered_imports) :
        /\ objs[id].ordered_imports[k].t = "ImportFromModule"
        /\ objs[id].ordered_imports[k].alias = n
        /\ ResolvesAt(id, k)

PropagationDone == shake_tree /\ pc \in {"pack", "header", "done"}

----------------------------------------------------------------------------
(* C19 *)

\* The (module, alias) pairs of the plain import statements of a header
HeaderPlainPairs(header) ==
    UNION {{<<a.name, AsnameOrName(a)>> : a \in Range(header[i].names)} :
           i \in PlainAt(header)}

\* The plain import entry imp of the module `id` passes the filter: shaking is
\* disabled, or its alias is in the external set of the module
PlainPasses(id, imp) ==
    ~shake_tree \/ imp.alias \in ExternalSet(source_code_externals, id)

\* The pairs of the plain import entries of the module p that pass the filter
PlainKept(p) ==
    {<<e.module, e.alias>> :
        e \in {x \in Range(Models[p].ordered_imports) :
                  x.t = "ImportModule" /\ PlainPasses(source_code_cache[p], x)}}

\* The step of the assembly that meets a plain import entry adds it to the
\* import group of the module if and only if it passes the filter
PlainStep ==
    (pc = "pack" /\ stack # <<>> /\ Top.fn = "pack"
       /\ Top.i <= Len(objs[Top.code].ordered_imports)
       /\ objs[Top.code].ordered_imports[Top.i].t = "ImportModule") =>
        stack'[Len(stack)].import_group =
            IF PlainPasses(Top.code, objs[Top.code].ordered_imports[Top.i])
            THEN Append(Top.import_group, objs[Top.code].ordered_imports[Top.i])
            ELSE Top.import_group

\* C19: a plain import entry of a module of the program is added to the merged
\* imports if and only if shaking is disabled or its alias is in the external
\* set of that module, and the plain imports of the header are those of the
\* entries added; with shaking enabled, a module of which no name was
\* requested adds none.
C19_PlainImportFilter ==
    /\ [][PlainStep]_vars
    /\ [](Done => HeaderPlainPairs(Out.import_header)
                      = UNION {PlainKept(p) : p \in ReachableModules})
    /\ [](Done /\ shake_tree =>
            \A p \in ReachableModules :
                ExternalSet(source_code_externals, source_code_cache[p]) = {}
                    => PlainKept(p) = {})

\* A bundle made with shaking enabled: a plain import was kept, another was
\* dropped and is not in the header, and a module of which no name was
\* requested has a plain import
C19_Witness ==
    /\ Done /\ shake_tree /\ Len(outputs) = 1
    /\ \E p \in ReachableModules : PlainKept(p) # {}
    /\ \E p \in ReachableModules :
         \E e \in Range(Models[p].ordered_imports) :
            /\ e.t = "ImportModule"
            /\ <<e.module, e.alias>> \notin HeaderPlainPairs(Out.import_header)
    /\ \E p \in ReachableModules :
         /\ ExternalSet(source_code_externals, source_code_cache[p]) = {}
         /\ \E e \in Range(Models[p].ordered_imports) : e.t = "ImportModule"

----------------------------------------------------------------------------
(* C20 *)

\* The name that a plain import binds: its alias, or the first segment of a
\* dotted module name imported without an alias
DottedRoots == [m \in {"os.path"} |-> "os"]

BoundName(imp) ==
    IF imp.alias \in DOMAIN DottedRoots THEN DottedRoots[imp.alias] ELSE imp.alias

\* The names that the statements of the chunks emitted for the module p read
\* and no scope of theirs binds
ChunkReads(p) ==
    UNION {UNION {NamesRead(ModuleEvents(Out.import_body[i].code[j].ev,
                                         Out.import_body[i].code[j].params)) :
                     j \in 1..Len(Out.import_body[i].code)} :
           i \in {c \in 1..Len(Out.import_body) :
                     ChunkModule(Out.import_body[c].comment) = p}}

\* C20: with shaking enabled, every plain import of a module of the program
\* whose bound name is read by a chunk emitted for that module is in the
\* merged import header, whether it has an alias, names a single-segment
\* module, or names a dotted module and binds its first segment.
C20_ReadPlainImportsKept ==
    (Done /\ shake_tree) =>
        \A p \in ReachableModules :
            \A e \in Range(Models[p].ordered_imports) :
                (e.t = "ImportModule" /\ BoundName(e) \in ChunkReads(p)) =>
                    <<e.module, e.alias>> \in HeaderPlainPairs(Out.import_header)

----------------------------------------------------------------------------
(* C21 *)

\* The named or wildcard import entry imp of the module p names no file
Unresolved(p, imp) ==
    imp.t # "ImportModule" /\ find_spec_from(files, imp.module, p) = None

\* The named and wildcard import entries of the modules of the program that
\* name no file
UnresolvedFromEntries == {pe \in UnresolvedEntries : pe[2].t # "ImportModule"}

\* The unresolved import entry of the module `id` passes the filter of line
\* 149: shaking is disabled, or the external set of the module is not empty
UnresolvedPasses(id) ==
    ~shake_tree \/ ExternalSet(source_code_externals, id) # {}

\* The step of the assembly that meets an unresolved import entry adds it to
\* the import group of the module if and only if it passes the filter
UnresolvedStep ==
    (pc = "pack" /\ stack # <<>> /\ Top.fn = "pack"
       /\ Top.i <= Len(objs[Top.code].ordered_imports)
       /\ Unresolved(objs[Top.code].origin, objs[Top.code].ordered_imports[Top.i])) =>
        stack'[Len(stack)].import_group =
            IF UnresolvedPasses(Top.code)
            THEN Append(Top.import_group, objs[Top.code].ordered_imports[Top.i])
            ELSE Top.import_group

----------------------------------------------------------------------------
(* C22 *)

\* The (alias, exported name) pairs of the aliased names of the named import
\* statements of the module p
AliasPairs(p) ==
    UNION {{<<a.asname, a.name>> : a \in {x \in Range(st.names) : x.asname # NoName}} :
           st \in {x \in Range(files[p]) : x.k = "ImportFrom"}}

\* A statement of the module p, other than an import statement, reads n
RefersTo(p, n) ==
    \E st \in OwnStmts(p) : n \in NamesRead(ModuleEvents(st.ev, st.params))

\* The names that the bundle binds: those its header imports, the definitions
\* of its chunks and the names its statements assign
BundleBinds(text) ==
    {AsnameOrName(a) :
        a \in UNION {Range(text.import_header[i].names) :
                        i \in 1..Len(text.import_header)}}
    \cup DefNames(StatementsOf(text))
    \cup UNION {NamesWritten(ModuleEvents(st.ev, st.params)) :
                    st \in Range(StatementsOf(text))}

\* The chunks of the bundle that hold the whole statement list of a module
WholeChunksAt(text) ==
    {i \in 1..Len(text.import_body) : text.import_body[i].comment.name = NoName}

\* C22: in a chunk that holds the whole statement list of a module, the alias
\* binding Z = Y of a statement `from X import Y as Z` of that module stands
\* only if a statement of the module refers to Z, and the name Y it reads is
\* defined or imported by the bundle (a wildcard import in the header may bind
\* any name).
C22_AliasBindingOnlyIfReferred ==
    Done =>
        \A i \in WholeChunksAt(Out) :
            \A zy \in AliasPairs(ChunkModule(Out.import_body[i].comment)) :
                AstAssign(zy[1], zy[2]) \in Range(Out.import_body[i].code) =>
                    /\ RefersTo(ChunkModule(Out.import_body[i].comment), zy[1])
                    /\ \/ zy[2] \in BundleBinds(Out)
                       \/ StarAt(Out.import_header) # {}

----------------------------------------------------------------------------
(* C23 *)

\* The names that a scope binds: its parameters, the names its own statements
\* assign and the functions and classes defined in it
LocalNames(evs, params) ==
    params
    \cup {evs[i][2] : i \in {j \in 1..Len(evs) : evs[j][1] = "W"}}
    \cup {evs[i][3] : i \in {j \in 1..Len(evs) :
                                 evs[j][1] = "S" /\ evs[j][2] # "Lambda"}}

\* The names read in evs that neither `bound` nor an enclosing scope inside
\* evs binds, wherever the binding stands
RECURSIVE FreeIn(_, _)
FreeIn(evs, bound) ==
    IF evs = <<>> THEN {}
    ELSE LET e == Head(evs)
         IN (IF e[1] = "S" THEN FreeIn(e[5], bound \cup LocalNames(e[5], e[4]))
             ELSE IF e[1] = "R" /\ e[2] \notin bound THEN {e[2]}
             ELSE {})
            \cup FreeIn(Tail(evs), bound)

\* The names that a module defines at top level: functions, classes and
\* module-scope variables
TopLevelNames(body) ==
    DefNames(body)
    \cup UNION {LocalNames(st.ev, {}) : st \in {x \in Range(body) : x.k = "Stmt"}}

\* The names read in a module that neither its top level nor an enclosing
\* scope binds
FreeNames(body) ==
    UNION {IF st.k = "Stmt"
           THEN FreeIn(st.ev, TopLevelNames(body))
           ELSE FreeIn(st.ev, TopLevelNames(body) \cup LocalNames(st.ev, st.params)) :
           st \in {x \in Range(body) : x.k \notin {"Import", "ImportFrom"}}}

\* The names read in evs at a place before which, in source order, neither
\* `bound` nor an enclosing scope inside evs has bound them
RECURSIVE UnboundAtRead(_, _)
UnboundAtRead(evs, bound) ==
    IF evs = <<>> THEN {}
    ELSE LET e == Head(evs)
         IN IF e[1] = "S"
            THEN LET name == IF e[2] = "Lambda" THEN {} ELSE {e[3]}
                     inner == IF e[2] = "ClassDef" THEN {} ELSE e[4]
                 IN UnboundAtRead(e[5], bound \cup name \cup inner)
                    \cup UnboundAtRead(Tail(evs), bound \cup name)
            ELSE IF e[1] = "W" THEN UnboundAtRead(Tail(evs), bound \cup {e[2]})
            ELSE (IF e[2] \in bound THEN {} ELSE {e[2]})
                 \cup UnboundAtRead(Tail(evs), bound)

\* The statements other than imports as events of the module scope: a
\* definition is a scope
ModuleScopeEvents(body) ==
    Flatten([i \in 1..Len(body) |->
        IF body[i].k \in {"Import", "ImportFrom"} THEN <<>>
        ELSE IF body[i].k = "Stmt" THEN body[i].ev
        ELSE <<Scope(body[i].k, body[i].name, body[i].params, body[i].ev)>>])

----------------------------------------------------------------------------
(* C24 *)

\* The events of a body without its string-literal expression statements
RECURSIVE WithoutDocstringEvents(_)
WithoutDocstringEvents(evs) ==
    IF evs = <<>> THEN <<>>
    ELSE LET e == Head(evs)
         IN (IF e = C("str") THEN <<>>
             ELSE IF e[1] = "S"
             THEN <<Scope(e[2], e[3], e[4], WithoutDocstringEvents(e[5]))>>
             ELSE <<e>>)
            \o WithoutDocstringEvents(Tail(evs))

\* A text without its string-literal expression statements, at the top level
\* of its chunks and inside its definitions; the header and the comments of
\* the chunks as they are
WithoutDocstrings(text) ==
    [import_header |-> text.import_header,
     import_body |->
        [i \in 1..Len(text.import_body) |->
            LET NotDocstring(st) == st # AstExpr("str")
                kept == SelectSeq(text.import_body[i].code, NotDocstring)
            IN [comment |-> text.import_body[i].comment,
                code |-> [j \in 1..Len(kept) |->
                             [kept[j] EXCEPT !.ev = WithoutDocstringEvents(@)]]]]]

\* C24: with docstring stripping requested, pack raises no error, and the
\* text it returns is the text returned without stripping less exactly its
\* string-literal expression statements: numeric and `...` constant
\* expression statements stay.
C24_StripsDocstringsOnly ==
    /\ strip_docstring => pc # "failed" /\ err = NoError
    /\ (Done /\ strip_docstring) =>
           /\ Len(outputs) = 2
           /\ outputs[2] = WithoutDocstrings(outputs[1])

====
